-------------------------- MODULE MCDiscoveryServer --------------------------
(* Two concurrent CGI invocations, two repositories, two configurations    *)
(* (the second drops r1), a descriptor and a non-descriptor file, and the  *)
(* upload and delete names that probe the path handling.                 *)
EXTENDS DiscoveryServer, TLC

CONSTANTS q1, q2

MCReq == {q1, q2}
MCRepos == {"r1", "r2"}
MCConfigs == {"c1", "c2"}
MCCatalog == ("c1" :> <<"r1", "r2">>) @@ ("c2" :> <<"r2">>)
MCFiles == {"a.jad", "b.jar"}
MCDescriptors == {"a.jad"}
MCInitFiles == ("r1" :> {"a.jad", "b.jar"}) @@ ("r2" :> {"a.jad"})

MCUploadNames ==
    { Path(FALSE, <<"..", "b.jar">>),       \* "..\b.jar"
      Path(TRUE,  <<"home", "a.jad">>),     \* "/home/a.jad"
      Path(FALSE, <<"x", "..">>) }          \* "x/.." (basename ".")

MCDeleteNames ==
    { Path(FALSE, <<"a.jad">>),
      Path(FALSE, <<"..", "repconf.xml">>) }

MCPlainDeleteNames == { Path(FALSE, <<"a.jad">>), Path(FALSE, <<"b.jar">>) }

\* The objectID the XML listing gives a.jad of r1, and its file path.
MCIds ==
    { Path(TRUE, <<"repository", "r1", "a.jad">>),
      Path(TRUE, <<"srv", "repository", "r1", "a.jad">>) }

\* Contents as the descriptor readers see them: a.jad names the MIDlet
\* Foo (v1), Bar with a vendor line (v2) or Baz (v3, one line, shorter
\* than v2); "mix" is v3 written over v2 from offset 0, Baz followed by
\* v2's vendor line.  b.jar is an archive with a vendor line; an empty or
\* mixed archive is not a zip, an empty (truncated) .jad has no lines.
NameLine(n) == [colon |-> TRUE, tag |-> "MIDlet-Name", value |-> <<n>>]
VendorLine == [colon |-> TRUE, tag |-> "MIDlet-Vendor", value |-> <<"Acme">>]
FileRec(base, ext, ok, ls, man) ==
    [dir |-> <<"srv", "repository", "r1">>, base |-> base, ext |-> ext, ok |-> ok,
     lines |-> ls, doc |-> [name |-> "media", text |-> <<>>, kids |-> <<>>],
     manifest |-> man]
MCVersions == {"v1", "v2", "v3", "mix"}
MCContent ==
    ("a.jad" :> [v \in MCVersions \cup {"empty"} |->
                   FileRec("a", ".jad", TRUE,
                           CASE v = "v1"  -> <<NameLine("Foo")>>
                             [] v = "v2"  -> <<NameLine("Bar"), VendorLine>>
                             [] v = "v3"  -> <<NameLine("Baz")>>
                             [] v = "mix" -> <<NameLine("Baz"), VendorLine>>
                             [] OTHER     -> <<>>, <<>>)])
    @@ ("b.jar" :> [v \in MCVersions \cup {"empty"} |->
                      FileRec("b", ".jar", v \notin {"empty", "mix"}, <<>>, <<VendorLine>>)])
MCUploadData == {"v2", "v3"}

\* Only v3 is shorter than another upload.
MCOverwrite(new, old) == IF new = "v3" /\ old = "v2" THEN "mix" ELSE new

MCScriptDir == <<"srv", "bin", "admin">>
MCRoot == <<"srv">>
=============================================================================
