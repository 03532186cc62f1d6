----------------------------- MODULE MCUpdater ------------------------------
(* Model checking of Updater: five releases, of which one does not run,
   with version numbers of different lengths, two of them equal in value. *)
EXTENDS Updater

MCVersions == {<<0, 1>>, <<0, 1, 0>>, <<0, 2>>, <<0, 2, 1>>, <<1>>}
MCFirst == <<0, 1>>
MCBroken == {<<0, 2>>}
=============================================================================
