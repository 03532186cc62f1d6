--------------------------- MODULE InventoryTests ---------------------------
(***************************************************************************)
(* The bill of materials and the lists of browser extensions against       *)
(* reference definitions.                                                  *)
(***************************************************************************)
EXTENDS TestCase, Integers, Sequences, FiniteSets, TLC

CONSTANTS MaxName,       \* bound: characters of the name of a package
          MaxInstances   \* bound: processes

I == INSTANCE SoftwareInventory

Strings(chars, n) == UNION {[1..k -> chars] : k \in 0..n}

(* A host of which only the packages matter.  The lines have a second package. *)
PackageHost(os, dpkg, line, other) ==
  LET output == [success |-> TRUE, lines |-> <<line, other>>]
      none == [success |-> FALSE, lines |-> <<>>]
  IN  [os |-> os, dpkg |-> IF dpkg THEN output ELSE none, rpm |-> output, brew |-> output]

(* The products of a Windows host, and the lines wmic writes of them. *)
ProductHost(products) ==
  LET written(p) == <<"N", ",">> \o p[1] \o <<",">> \o p[2]
  IN  [os |-> "windows", products |-> products,
       wmic |-> [success |-> TRUE, lines |-> <<<<"N", ",", "n", ",", "v">>>> \o [n \in DOMAIN products |-> written(products[n])]]]

(* A name in bytes: the letter that is not ASCII has two. *)
Letter == "e-acute"
bytes(name) == I!FlattenSeq([n \in DOMAIN name |-> IF name[n] = Letter THEN <<"xC3", "xA9">> ELSE <<name[n]>>])
Names == {bytes(name) : name \in Strings({"%", "2", "F", "/", "@", " ", Letter}, MaxName)}

PackageTests ==
  /\ test = "package"
  /\ \E name \in Names, version \in {<<>>, <<"@">>, <<"4", "0">>, <<"%">>}, arch \in {<<>>, <<"?">>}, n \in 1..5 :
       LET fields == <<name, version, arch, <<"p">>, <<"q">>>>
       IN  \/ \E dpkg \in BOOLEAN :
                input = PackageHost("linux", dpkg, SubSeq(fields, 1, n), <<<<"b">>, <<"1">>>>)
           \/ n = 1 /\ \E tail \in {<<>>, <<",">>, <<",", " ", "F">>} :
                input = ProductHost(<<<<name \o tail, version>>, <<<<"b">>, <<"1">>>>>>)
           \/ /\ n <= 3 /\ \A f \in 1..n : fields[f] # <<>> /\ \A c \in DOMAIN fields[f] : fields[f][c] # " "
              /\ input = PackageHost("macos", FALSE, SubSeq(fields, 1, n), <<<<"b">>, <<"1">>>>)

----------------------------------------------------------------------------
Versions == "9.0" :> <<9, 0>> @@ "10.0" :> <<10, 0>> @@ "10.1" :> <<10, 1>> @@ "10" :> <<10>> @@ "99" :> <<99>>
Manifests == {"parsed", I!Malformed, I!None}
Dir(version, manifest, name, default_locale, messages) ==
  [is_dir |-> TRUE, starts_with_digit |-> TRUE, digits |-> Versions[version], manifest |-> manifest, name |-> name,
   version |-> IF name = I!None THEN I!None ELSE version, dir_version |-> version, default_locale |-> default_locale, messages |-> messages]
Other(is_dir) == [Dir("99", "parsed", "other", I!None, <<>>) EXCEPT !.is_dir = is_dir, !.starts_with_digit = ~is_dir]

Locales == {"fr", "en", "en_US", "en_GB"}
Messages == {[l \in Locales |-> IF l \in has THEN l ELSE I!None] : has \in SUBSET Locales}

(* An extension with two versions and something else in its directory, listed in any
   order, after one that is not broken. *)
ChromiumTests ==
  /\ test = "chromium"
  /\ \E v, w \in DOMAIN Versions \ {"99"}, m, k \in Manifests, name \in {"plain", "__MSG_key__", I!None},
        l \in {I!None, "fr", "en_GB"}, messages \in Messages, dir \in BOOLEAN, profile \in {"Default", "Profile 1", "Crashpad"} :
       /\ name # "__MSG_key__" => messages = [x \in Locales |-> I!None] /\ l = I!None
       /\ v # w
       /\ input = [profile |-> profile,
                   entries |-> <<Dir(v, m, name, l, messages), Other(dir), Dir(w, k, name, l, messages)>>]

Addons == [type : {I!None, "extension", "theme"}, id : {I!None, "x"}, locale_name : {I!None, "loc"}, name : {"n"},
           version : {I!None, "1"}, active : {I!None, "true", "false"},
           disabled : SUBSET {"userDisabled", "appDisabled"}]
FirefoxTests ==
  /\ test = "firefox"
  /\ \E a, b \in Addons, file \in {"parsed", I!Malformed, "missing"} :
       /\ b.locale_name = "loc" /\ b.version = "1" /\ b.disabled = {}
       /\ input = [file |-> file, addons |-> <<a, b>>]

Plugins == [blank : BOOLEAN, id : [name : {"p"}, dotted : BOOLEAN, plain : BOOLEAN], version : {I!None, "1"}]
SafariTests ==
  /\ test = "safari"
  /\ \E a, b \in Plugins, success \in BOOLEAN, legacy \in {<<>>, <<"l">>} :
       input = [plugins |-> <<a, b>>, pluginkit |-> success, legacy |-> legacy]

Processes == [name : {"a", "b"}, path : {I!None, "/a"}, publisher : {I!None, "v", "w"}]
ProcessTests ==
  /\ test = "processes"
  /\ \E n \in 0..MaxInstances : \E ps \in [1..n -> Processes] : input = ps

InventoryTest == PackageTests \/ ChromiumTests \/ FirefoxTests \/ SafariTests \/ ProcessTests

----------------------------------------------------------------------------
(* What a package URL says of name, version and architecture, read as the grammar of
   package URLs asks. *)
decoded(s) ==
  LET code == [slash |-> <<"2", "F">>, question |-> <<"3", "F">>, hash |-> <<"2", "3">>, at |-> <<"4", "0">>,
               percent |-> <<"2", "5">>, space |-> <<"2", "0">>, high |-> <<"C", "3">>, low |-> <<"A", "9">>]
      char == [slash |-> "/", question |-> "?", hash |-> "#", at |-> "@", percent |-> "%", space |-> " ",
               high |-> "xC3", low |-> "xA9"]
      escaped(n) == {c \in DOMAIN code : s[n] = "%" /\ n + 2 <= Len(s) /\ code[c] = SubSeq(s, n + 1, n + 2)}
      from[n \in 1..(Len(s) + 3)] ==
        CASE n > Len(s) -> <<>>
          [] n <= Len(s) /\ escaped(n) # {} -> <<char[CHOOSE c \in escaped(n) : TRUE]>> \o from[n + 3]
          [] OTHER -> <<s[n]>> \o from[n + 1]
  IN  from[1]

read(purl) ==
  LET at(c) == {n \in DOMAIN purl : purl[n] = c}
      start == I!Max(at("/")) + 1
      query == I!Min(at("?arch=") \cup {Len(purl) + 1})
      version == I!Min((at("@") \cap start..query) \cup {query})
  IN  <<decoded(SubSeq(purl, start, version - 1)), decoded(SubSeq(purl, version + 1, query - 1)),
        decoded(SubSeq(purl, query + 1, Len(purl)))>>

(* The packages that the package manager names, what there is to say of each, and what *)
(* is said of those in the bill of materials.                                            *)
listed_packages ==
  LET lines == CASE input.os = "linux" -> input.rpm.lines
                 [] input.os = "macos" -> input.brew.lines
                 [] input.os = "windows" -> input.products
  IN  SelectSeq(lines, LAMBDA l : I!trim(l[1]) # <<>> /\ (input.os = "linux" => Len(l) >= 2))
there_is(line) ==
  LET field(n) == IF n <= Len(line) THEN I!trim(line[n]) ELSE <<>>
  IN  IF input.os = "macos" THEN <<line[1], IF Len(line) = 1 THEN <<>> ELSE line[Len(line)], <<>>>>
      ELSE <<field(1), field(2), field(3)>>
said == LET packages == I!collect_package_components(input) IN [n \in DOMAIN packages |-> read(packages[n].purl)]
cut(line) == input.os = "windows" /\ "," \in {line[1][n] : n \in DOMAIN line[1]}

(* Every package the package manager lists with a name is in the bill of materials, in
   order, and its package URL says which one it is: name, version and architecture can be
   read from it, also where they hold a character of the grammar of package URLs or one
   that is not ASCII, so no two packages have the same.  On Windows this is said of the
   names without a comma, and one with a comma costs no other product its entry (sbom.rs,
   the parsers, build_purl and purl_encode). *)
PurlsTellApart ==
  LET listed == listed_packages
      says == said
  IN  test = "package" =>
        /\ (\A n \in DOMAIN listed : ~cut(listed[n])) => says = [n \in DOMAIN listed |-> there_is(listed[n])]
        /\ \A n \in DOMAIN listed : cut(listed[n]) \/ \E m \in DOMAIN says : says[m] = there_is(listed[n])

(* "[A] document describing every piece of software the enhanced-inventory module can see on
   the host: installed OS packages -- dpkg-query / rpm / Homebrew / WMI [...]" (sbom.rs:3-6): a
   product with a comma in its name too. *)
ProductsAreDescribed ==
  test = "package" => \A n \in DOMAIN listed_packages : \E m \in DOMAIN said : said[m] = there_is(listed_packages[n])

(* A host with this software, and nothing else that is listed. *)
Host(chrome, firefox, processes) ==
  [os |-> "windows", home |-> TRUE, chrome |-> chrome, edge |-> <<>>, firefox |-> firefox, processes |-> processes,
   wmic |-> [success |-> FALSE, lines |-> <<>>]]

(* Every extension whose newest version, by its numbers, has a manifest that parses is
   listed once, with that version and with the name of the first locale that has one, in
   each profile of the browser and nowhere else; every add-on with an id that is an
   extension is, as enabled unless it is inactive or disabled; every Safari extension that is left
   from older versions or registered is; every program that runs is
   listed once, with the number of its instances and a publisher if one is known.  What is
   broken costs nothing else (browser_extensions.rs, the scans; sbom.rs,
   collect_process_components). *)
InstalledIsListed ==
  LET bom(host) == I!generate_sbom(host)
      good == [id |-> "good", is_dir |-> TRUE, entries |-> <<Dir("99", "parsed", "good", I!None, <<>>)>>]
      ext == [id |-> "x", is_dir |-> TRUE, entries |-> input.entries]
      stray == [ext EXCEPT !.is_dir = FALSE]
      value(dir) == 100 * dir.digits[1] + (IF Len(dir.digits) = 2 THEN 1 + dir.digits[2] ELSE 0)
      newest == IF value(input.entries[1]) > value(input.entries[3]) THEN input.entries[1] ELSE input.entries[3]
      tried == <<newest.default_locale, "en", "en_US", "en_GB">>
      named == {n \in 1..4 : tried[n] # I!None /\ newest.messages[tried[n]] # I!None}
      name == CASE newest.name = I!None -> "x"
                [] newest.name = "plain" -> "plain"
                [] OTHER -> IF named = {} THEN "key" ELSE tried[CHOOSE n \in named : \A m \in named : n <= m]
      chromium == bom(Host(<<[name |-> "Crashpad", is_dir |-> TRUE, extensions |-> <<good>>],
                             [name |-> input.profile, is_dir |-> TRUE, extensions |-> <<stray, ext, good>>]>>,
                           <<>>, <<>>)).extensions
      firefox == bom(Host(<<>>, <<[name |-> "f", is_dir |-> TRUE, file |-> input.file, addons |-> input.addons]>>,
                          <<>>)).extensions
      addons == IF input.file # "parsed" THEN <<>>
                ELSE SelectSeq(input.addons, LAMBDA a : a.id # I!None /\ a.type # "theme")
      enabled(a) == CASE a.active = I!None -> I!None
                      [] a.active = "true" /\ a.disabled = {} -> "true" [] OTHER -> "false"
      safari == I!enumerate_browser_extensions(
                  [os |-> "macos", home |-> TRUE, chrome |-> <<>>, edge |-> <<>>, firefox |-> <<>>, legacy |-> input.legacy,
                   plugins |-> input.plugins, pluginkit |-> input.pluginkit])
      plugins == IF input.pluginkit THEN SelectSeq(input.plugins, LAMBDA l : ~l.blank /\ l.id.dotted /\ l.id.plain)
                 ELSE <<>>
      programs == bom(Host(<<>>, <<>>, input)).processes
      instances(c) == {n \in DOMAIN input : <<input[n].name, input[n].path>> = c.key}
  IN  CASE test = "chromium" ->
             [n \in DOMAIN chromium |-> <<chromium[n].profile, chromium[n].name, chromium[n].purl>>] =
               IF input.profile = "Crashpad" THEN <<>>
               ELSE LET listed(e, v) == <<input.profile, e, I!build_purl("chrome-extension", "", v[1], v[2])>>
                    IN  (IF newest.manifest = "parsed" THEN <<listed(name, <<<<"x">>, <<newest.dir_version>>>>)>> ELSE <<>>)
                          \o <<listed("good", <<<<"good">>, <<"99">>>>)>>
        [] test = "firefox" ->
             [n \in DOMAIN firefox |-> firefox[n].enabled] = [n \in DOMAIN addons |-> enabled(addons[n])]
        [] test = "safari" ->
             [n \in DOMAIN safari |-> safari[n].extension_id] = input.legacy \o [n \in DOMAIN plugins |-> "p"]
        [] test = "processes" ->
             /\ Cardinality(programs) = Cardinality({<<input[n].name, input[n].path>> : n \in DOMAIN input})
             /\ \A c \in programs : /\ c.instances = Cardinality(instances(c)) /\ c.instances > 0
                                     /\ c.publisher = I!None <=> \A n \in instances(c) : input[n].publisher = I!None
        [] OTHER -> TRUE
=============================================================================
