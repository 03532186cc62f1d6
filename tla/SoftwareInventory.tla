-------------------------- MODULE SoftwareInventory -------------------------
(***************************************************************************)
(* What the enhanced inventory lists: the extensions of the browsers       *)
(* (browser_extensions.rs) and the software bill of materials (sbom.rs).   *)
(*                                                                         *)
(* Text is a sequence of characters where it is taken apart or encoded,    *)
(* and a single value elsewhere.  A version directory is the sequence of   *)
(* the runs of digits in its name.  A file is None when it cannot be read  *)
(* and Malformed when it is not JSON.                                      *)
(***************************************************************************)
EXTENDS Integers, FiniteSets, SequencesExt

None == "none"
Malformed == "malformed"
Empty == ""
or(value, other) == IF value = None THEN other ELSE value

readable(file) == file \notin {None, Malformed}

----------------------------------------------------------------------------
(* Browser extensions *)

Extension(browser, profile, id, name, version, enabled) ==
  [browser |-> browser, profile |-> profile, extension_id |-> id, name |-> name,
   version |-> version, enabled |-> enabled]

(* Mutation: the major version only. *)
parse_chromium_version_dir_Major(dir) == <<dir.digits[1]>>

(* The numbers of a version directory, compared as Rust compares vectors. *)
parse_chromium_version_dir(dir) == dir.digits
before(v, w) ==
  \/ Len(v) < Len(w) /\ v = SubSeq(w, 1, Len(v))
  \/ \E n \in 1..Min({Len(v), Len(w)}) : v[n] < w[n] /\ \A m \in 1..(n - 1) : v[m] = w[m]

(* The best of the directories in the order they are listed. *)
latest_version_dir(entries) ==
  LET numbers(dir) == parse_chromium_version_dir(dir)
      better(best, dir) == IF best # <<>> /\ ~before(numbers(best[1]), numbers(dir)) THEN best ELSE <<dir>>
  IN  FoldLeft(better, <<>>, SelectSeq(entries, LAMBDA e : e.is_dir /\ e.starts_with_digit))

(* The locales in which a message is looked up.  A locale gives the name it has for the
   message, None if it has none or its file cannot be read. *)
locales(default_locale) ==
  LET english == <<"en", "en_US", "en_GB">>
  IN  IF default_locale \in {None, Empty} THEN english
      ELSE <<default_locale>> \o SelectSeq(english, LAMBDA l : l # default_locale)

resolve_chromium_message(key, messages, default_locale) ==
  LET tried == locales(default_locale)
      found == {n \in DOMAIN tried : messages[tried[n]] # None}
  IN  IF found = {} THEN key ELSE messages[tried[Min(found)]]

(* The extension in a directory, as a sequence of at most one. *)
read_chromium_extension(browser, profile, ext) ==
  LET latest == latest_version_dir(ext.entries)
      dir == latest[1]
      name == CASE dir.name = None -> ext.id
                [] dir.name = "__MSG_key__" -> resolve_chromium_message("key", dir.messages, dir.default_locale)
                [] OTHER -> dir.name
  IN  IF latest = <<>> \/ ~readable(latest[1].manifest) THEN <<>>
      ELSE <<Extension(browser, profile, ext.id, name, or(dir.version, dir.dir_version), None)>>

is_chromium_profile_dir(name) == name \in {"Default", "System Profile", "Profile 1", "Guest Profile"}

scan_chromium_profile(browser, profile, exts) ==
  FlattenSeq([n \in DOMAIN exts |->
                IF exts[n].is_dir THEN read_chromium_extension(browser, profile, exts[n]) ELSE <<>>])

scan_chromium(browser, base) ==
  FlattenSeq([n \in DOMAIN base |->
                IF base[n].is_dir /\ is_chromium_profile_dir(base[n].name)
                THEN scan_chromium_profile(browser, base[n].name, base[n].extensions) ELSE <<>>])

(* active is a Boolean in text; disabled holds the flags that are set, userDisabled and
   appDisabled. *)
scan_firefox(profile) ==
  LET listed(a) == Extension("firefox", profile.name, a.id, or(a.locale_name, or(a.name, a.id)), or(a.version, Empty),
                             IF a.active = None THEN None
                             ELSE IF a.active = "true" /\ a.disabled = {} THEN "true" ELSE "false")
      extensions == SelectSeq(profile.addons, LAMBDA a : a.type \in {None, "extension"} /\ a.id # None)
  IN  IF ~readable(profile.file) THEN <<>> ELSE [n \in DOMAIN extensions |-> listed(extensions[n])]

firefox_profile_dirs(entries) == SelectSeq(entries, LAMBDA e : e.is_dir /\ e.file # "missing")

(* A line of pluginkit: the head is split at its last parenthesis, and what does not look
   like the name of a bundle is no extension. *)
looks_like_bundle_id(id) == id.dotted /\ id.plain
parse_pluginkit_output(lines) ==
  LET plugins == SelectSeq(lines, LAMBDA l : ~l.blank /\ looks_like_bundle_id(l.id))
  IN  [n \in DOMAIN plugins |->
         Extension("safari", Empty, plugins[n].id.name, plugins[n].id.name, or(plugins[n].version, Empty), None)]

safari_scan(host) ==
  [n \in DOMAIN host.legacy |-> Extension("safari", Empty, host.legacy[n], host.legacy[n], Empty, None)]
    \o (IF host.pluginkit THEN parse_pluginkit_output(host.plugins) ELSE <<>>)

enumerate_browser_extensions(host) ==
  IF ~host.home THEN <<>>
  ELSE scan_chromium("chrome", host.chrome) \o scan_chromium("edge", host.edge)
         \o FlattenSeq(LET dirs == firefox_profile_dirs(host.firefox)
                       IN  [n \in DOMAIN dirs |-> scan_firefox(dirs[n])])
         \o (IF host.os = "macos" THEN safari_scan(host) ELSE <<>>)

----------------------------------------------------------------------------
(* Package URLs.  A type, a namespace and what identifies an
   extension are single characters here; Absent is no text. *)

Absent == <<>>

(* A byte of a character that is not ASCII, by its digits.  These two are one letter. *)
HEX == [xC3 |-> <<"C", "3">>, xA9 |-> <<"A", "9">>]

(* Mutation: the escape character itself passes through. *)
purl_encode_Bare(s) ==
  LET escape(c) == CASE c = "/" -> <<"%", "2", "F">> [] c = "?" -> <<"%", "3", "F">> [] c = "#" -> <<"%", "2", "3">>
                     [] c = "@" -> <<"%", "4", "0">> [] c = " " -> <<"%", "2", "0">>
                     [] c \in DOMAIN HEX -> <<"%">> \o HEX[c]
                     [] OTHER -> <<c>>
  IN  FlattenSeq([n \in DOMAIN s |-> escape(s[n])])

(* Byte by byte. *)
purl_encode(s) ==
  LET escape(c) == CASE c = "/" -> <<"%", "2", "F">> [] c = "?" -> <<"%", "3", "F">> [] c = "#" -> <<"%", "2", "3">>
                     [] c = "@" -> <<"%", "4", "0">> [] c = "%" -> <<"%", "2", "5">> [] c = " " -> <<"%", "2", "0">>
                     [] c \in DOMAIN HEX -> <<"%">> \o HEX[c]
                     [] OTHER -> <<c>>
  IN  FlattenSeq([n \in DOMAIN s |-> escape(s[n])])

build_purl(ty, namespace, name, version) ==
  <<"pkg:", ty, "/">> \o (IF namespace = Empty THEN <<>> ELSE <<namespace, "/">>)
    \o purl_encode(name) \o (IF version = Absent THEN <<>> ELSE <<"@">> \o purl_encode(version))

arch_qualifier(arch) == IF arch = Absent THEN <<>> ELSE <<"?arch=">> \o purl_encode(arch)
build_purl_deb(name, version, arch) == build_purl("deb", "debian", name, version) \o arch_qualifier(arch)
build_purl_rpm(name, version, arch) == build_purl("rpm", "fedora", name, version) \o arch_qualifier(arch)
build_purl_brew(name, version) == build_purl("brew", Empty, name, version)
build_purl_generic(ty, name, version) == build_purl(ty, Empty, name, version)

browser_extension_purl(browser, id, version) ==
  LET text(s) == IF s = Empty THEN Absent ELSE <<s>>
      ty == CASE browser = "chrome" -> "chrome-extension" [] browser = "edge" -> "edge-extension"
              [] browser = "firefox" -> "firefox-addon" [] browser = "safari" -> "safari-extension"
  IN  IF id = Empty THEN Absent ELSE build_purl(ty, Empty, text(id), text(version))

----------------------------------------------------------------------------
(* Packages: the fields of the lines that the package manager writes *)

trim(s) ==
  LET inside == {n \in DOMAIN s : s[n] \notin {" ", "\t"}}
  IN  IF inside = {} THEN <<>> ELSE SubSeq(s, Min(inside), Max(inside))

Package(format, name, version, purl, publisher) ==
  [type |-> "library", format |-> format, name |-> name, version |-> version, purl |-> purl, publisher |-> publisher]

(* splitn(4, '\t'): what follows the third tab is one field. *)
tabbed(line) ==
  LET rest == FlattenSeq([n \in 1..(Len(line) - 3) |-> IF n = 1 THEN line[4] ELSE <<"\t">> \o line[n + 3]])
  IN  [n \in 1..Min({Len(line), 4}) |-> IF n < 4 THEN line[n] ELSE rest]

parse_fields(format, lines, build(_, _, _)) ==
  LET field(line, n) == IF n <= Len(tabbed(line)) THEN trim(tabbed(line)[n]) ELSE Absent
      package(line) ==
        Package(format, field(line, 1), field(line, 2),
                build(field(line, 1), field(line, 2), field(line, 3)), field(line, 4))
      kept == SelectSeq(lines, LAMBDA l : Len(l) >= 2 /\ trim(l[1]) # <<>>)
  IN  [n \in DOMAIN kept |-> package(kept[n])]
parse_dpkg(lines) == parse_fields("deb", lines, build_purl_deb)
parse_rpm(lines) == parse_fields("rpm", lines, build_purl_rpm)

(* A name and the versions installed. *)
parse_brew(lines) ==
  LET kept == SelectSeq(lines, LAMBDA l : l # <<>>)
      version(line) == IF Len(line) = 1 THEN Absent ELSE Last(line)
  IN  [n \in DOMAIN kept |-> Package("brew", kept[n][1], version(kept[n]),
                                     build_purl_brew(kept[n][1], version(kept[n])), <<"homebrew">>)]

(* split(','): the characters between the commas. *)
split(line) ==
  FoldLeft(LAMBDA fields, c : IF c = "," THEN Append(fields, <<>>) ELSE [fields EXCEPT ![Len(fields)] = Append(@, c)],
           <<<<>>>>, line)

(* After a header, the node, the name and the version of a product in each line. *)
parse_wmic(lines) ==
  LET rows == [n \in 1..(Len(lines) - 1) |-> split(trim(lines[n + 1]))]
      kept == SelectSeq(rows, LAMBDA l : Len(l) >= 3 /\ trim(l[2]) # <<>>)
  IN  [n \in DOMAIN kept |-> Package("msi", trim(kept[n][2]), trim(kept[n][3]),
                                     build_purl_generic("generic", trim(kept[n][2]), trim(kept[n][3])), Absent)]

(* The output of a command, nothing where it fails. *)
stdout(command) == IF command.success THEN command.lines ELSE <<>>
collect_dpkg(host) == parse_dpkg(stdout(host.dpkg))
collect_rpm(host) == parse_rpm(stdout(host.rpm))
collect_brew(host) == parse_brew(stdout(host.brew))
collect_wmic(host) == parse_wmic(stdout(host.wmic))

collect_package_components(host) ==
  CASE host.os = "linux" -> IF collect_dpkg(host) # <<>> THEN collect_dpkg(host) ELSE collect_rpm(host)
    [] host.os = "macos" -> collect_brew(host)
    [] host.os = "windows" -> collect_wmic(host)

----------------------------------------------------------------------------
(* The bill of materials *)

(* The key under which processes are one component. *)
program(p) == <<p.name, p.path>>

collect_process_components(processes) ==
  LET of(key) == {n \in DOMAIN processes : program(processes[n]) = key}
      known(key) == {n \in of(key) : processes[n].publisher # None}
  IN  {[type |-> "application", key |-> key, instances |-> Cardinality(of(key)),
        publisher |-> IF known(key) = {} THEN None ELSE processes[Min(known(key))].publisher]
         : key \in {program(processes[n]) : n \in DOMAIN processes}}

collect_browser_extension_components(exts) ==
  [n \in DOMAIN exts |->
     [type |-> "application", category |-> "browser_extension", browser |-> exts[n].browser,
      profile |-> exts[n].profile, extension_id |-> exts[n].extension_id, name |-> exts[n].name,
      purl |-> browser_extension_purl(exts[n].browser, exts[n].extension_id, exts[n].version),
      version |-> exts[n].version, enabled |-> exts[n].enabled]]

generate_sbom(host) ==
  [packages |-> collect_package_components(host),
   processes |-> collect_process_components(host.processes),
   extensions |-> collect_browser_extension_components(enumerate_browser_extensions(host))]
=============================================================================
