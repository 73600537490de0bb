----------------------------- MODULE Provisioning -----------------------------
(***************************************************************************)
(* The data of provisioning.py shared by every CGI script of the discovery *)
(* server: the Server and Repository classes, get_rep_by_name, and the    *)
(* path arithmetic (os.path.join / normpath) used to place repositories   *)
(* under the server root.  No variables: RepConf and DiscoveryServer      *)
(* extend this module.                                                     *)
(*                                                                         *)
(* A path is [abs |-> BOOLEAN, segs |-> sequence of segment strings].     *)
(***************************************************************************)
EXTENDS Integers, Sequences, SequencesExt, FiniteSets, FiniteSetsExt

CONSTANT
    ServerRoot   \* segments of SERVER.path, normpath(join(cwd, SERVER_ROOT))

Path(a, s) == [abs |-> a, segs |-> s]

\* posixpath.join(p, q): q replaces p when q is absolute.
Join(p, q) == IF q.abs THEN q ELSE Path(p.abs, p.segs \o q.segs)

\* Bug variant of NormPath: the joined path is checked as written.
NormPathSkipped(p) == p

\* posixpath.normpath: drop "" and "." segments; ".." removes the previous
\* segment, is dropped at the root of an absolute path, and is kept at the
\* front of a relative one.  "." is the empty relative path.
NormStep(abs, acc, s) ==
    CASE s \in {"", "."}                       -> acc
      [] s = ".." /\ acc # <<>> /\ Last(acc) # ".." -> Front(acc)
      [] s = ".." /\ abs                        -> acc
      [] OTHER                                  -> Append(acc, s)

NormPath(p) ==
    LET Step(acc, s) == NormStep(p.abs, acc, s)
    IN  Path(p.abs, FoldLeft(Step, <<>>, p.segs))

RepositoryDir == Path(TRUE, ServerRoot \o <<"repository">>)

\* str.startswith(join(SERVER.path, "repository/")) on a normalised path:
\* the trailing "/" makes the test a strict segment prefix.
StartsWithRepositoryDir(p) ==
    p.abs /\ IsStrictPrefix(RepositoryDir.segs, p.segs)

-----------------------------------------------------------------------------
(* The classes Server and Repository of provisioning.py.                  *)

\* join(SERVER.url, join("repository/", name)); the base is lost when the
\* name is absolute.
UrlOf(base, n) == [base |-> IF n.abs THEN <<>> ELSE base, name |-> n]

\* SERVER.showbundles() + "?repository=" + name
WebOf(base, n) == [base |-> base, name |-> n]

NewRepository ==
    [name        |-> Path(FALSE, <<"repository">>),
     url         |-> UrlOf(<<>>, Path(FALSE, <<"repository">>)),
     description |-> <<>>,
     path        |-> Path(FALSE, <<"repository">>),
     title       |-> <<"Unknown Repository">>,
     web         |-> WebOf(<<"/">>, Path(FALSE, <<>>))]

NewServer ==
    [name        |-> <<"Provisioning Server">>,
     url         |-> <<"/">>,
     description |-> <<>>,
     content     |-> <<>>]

\* get_rep_by_name: the first repository with that name, else the first
\* repository of the catalog, else a fresh Repository().
GetRepByName(content, n) ==
    IF content = <<>> THEN NewRepository
    ELSE LET hits == {i \in DOMAIN content : content[i].name = n}
         IN  IF hits = {} THEN content[1] ELSE content[Min(hits)]

-----------------------------------------------------------------------------
\* Where a path really leads when the kernel walks it segment by segment
\* from the root: ".." climbs to the parent, "." and "" stay.
RECURSIVE Walk(_, _)
Walk(dir, segs) ==
    IF segs = <<>> THEN dir
    ELSE Walk(CASE Head(segs) \in {"", "."} -> dir
                [] Head(segs) = ".."       -> SubSeq(dir, 1, Len(dir) - 1)
                [] OTHER                   -> Append(dir, Head(segs)),
              Tail(segs))

=============================================================================
