--------------------------- MODULE DiscoveryServer ---------------------------
(***************************************************************************)
(* Concurrent CGI invocations of the discovery server sharing one file     *)
(* system: showbundles.py listing a repository as HTML or as an XML       *)
(* discovery document, and admin/admin_console.py uploading or deleting   *)
(* files in a repository or rewriting repconf.xml.  Each invocation is a  *)
(* separate process; the web server runs them concurrently and nothing   *)
(* synchronises them, so every file-system access is an interleaving      *)
(* point.                                                                  *)
(*                                                                         *)
(* The file system is the set fs of absolute file locations (segment      *)
(* sequences) plus the content conf of repconf.xml.  Parsing repconf.xml  *)
(* is RepConf's subject; here a well-formed configuration c yields the    *)
(* catalog Catalog[c], any other content an empty catalog.                *)
(***************************************************************************)
EXTENDS Provisioning

CONSTANTS
    Req,          \* the CGI invocations
    Repos,        \* repository names (each has a directory on disk)
    Configs,      \* well-formed contents of repconf.xml
    Catalog,      \* Catalog[c]: the repository names configuration c lists
    InitConfig,   \* content of repconf.xml at start
    Files,        \* file names that may occur in a repository
    Descriptors,  \* the names among Files whose extension is in EXT_TO_SHOW
    InitFiles,    \* InitFiles[r]: the files of repository r at start
    UploadNames,  \* client-side file names of uploads (paths, "\" -> "/")
    DeleteNames,  \* values of the delete_file form field (relative paths)
    ScriptDir,    \* segments of the CGI script's working directory
    Ids,          \* values of showbundles.py's id field (paths as sent)
    Versions,     \* contents a file of the repositories may hold
    InitData,     \* the content of every repository file at start
    Content,      \* Content[f][v]: file f with content v, as Descriptor sees it
    UploadData,   \* contents of uploaded files
    Overwrite(_, _), \* Overwrite(new, old): a file holding old after new
                  \* is written over it from offset 0, without truncation
    None          \* model value: form field absent

ASSUME Catalog \in [Configs -> Seq(Repos)] /\ Descriptors \subseteq Files

VARIABLES
    fs,       \* locations of the files that exist
    conf,     \* content of repconf.xml: a configuration or "broken"
    pc,       \* pc[q]: where invocation q is
    form,     \* form[q]: the CGI form q was invoked with
    cat,      \* cat[q]: SERVER.content after q's provisioning.init()
    repo,     \* repo[q]: the Repository object q works on
    todo,     \* todo[q]: directory entries q has still to render
    resp,     \* resp[q]: the documents q has written to stdout
    removed,  \* history: [req, named, loc] for every os.remove done
    read,     \* read[q]: the location return_fileinfo had get_info open
    data,     \* data[l]: the content of the file at l, or "empty"
    shown,    \* history: [loc, info] of every listing row get_info produced
    first     \* first[q]: the .jad as get_jad_info's first open read it

vars == <<fs, conf, pc, form, cat, repo, todo, resp, removed, read, data, shown,
          first>>

\* get_info and its readers, applied to a file's content.
D == INSTANCE Descriptor WITH WS <- "ws", Absent <- None, Inputs <- {}, file <- None

-----------------------------------------------------------------------------
ConfLoc == RepositoryDir.segs \o <<"repconf.xml">>

RepName(r) == Path(FALSE, <<r>>)

\* The Repository object RepXMLHandler builds for <repository name="r">.
Entry(r) ==
    [NewRepository EXCEPT !.name = RepName(r),
                          !.path = NormPath(Join(RepositoryDir, RepName(r))),
                          !.url  = UrlOf(<<"/">>, RepName(r))]

Entries(s) == [i \in DOMAIN s |-> Entry(s[i])]

RepoDir(r) == Entry(r).path.segs

\* provisioning.init(): SERVER.content as parsed from repconf.xml; a
\* missing or unparsable file leaves it empty (the exception is caught).
LoadCatalog ==
    IF ConfLoc \in fs /\ conf \in Configs THEN Entries(Catalog[conf]) ELSE <<>>

\* The directory a Repository's path names; Repository() has the relative
\* path "repository/", resolved against the script's working directory.
DirOf(rp) == IF rp.path.abs THEN rp.path.segs ELSE ScriptDir \o rp.path.segs

\* Only the configured repositories' directories exist.
DirExists(d) == \E r \in Repos : d = RepoDir(r)

\* os.listdir(d), in some fixed directory order.
ListDir(d) == SetToSeq({Last(l) : l \in {l \in fs : Front(l) = d}})

IsDescriptor(f) == f \in Descriptors

\* The places a repository file can be.
Locs == {Append(RepoDir(r), f) : <<r, f>> \in Repos \X Files}

\* The contents someone put into a file whole: the initial ones and the
\* uploads.
Complete == {InitData} \cup UploadData

\* add_file: os.path.basename(os.path.normpath(filename)).
BaseName(p) ==
    LET n == NormPath(p) IN
    IF n.segs = <<>> THEN IF n.abs THEN "" ELSE "." ELSE Last(n.segs)

\* The URL of a Repository as a string: join(SERVER.url, join("repository/",
\* name)) with SERVER.url "/", or Repository()'s "repository/".
UrlPath(rp) ==
    IF rp.url = NewRepository.url THEN Path(FALSE, <<"repository">>)
    ELSE Join(Path(TRUE, <<>>), Join(Path(FALSE, <<"repository">>), rp.url.name))

\* A path string split at "/": a leading "/" gives an empty first field.
Fields(p) == IF p.abs THEN <<"">> \o p.segs ELSE p.segs

\* str.replace(old, new) on "/"-fields, left to right, without overlaps.
RECURSIVE Replace(_, _, _)
Replace(s, old, new) ==
    CASE Len(s) < Len(old)             -> s
      [] SubSeq(s, 1, Len(old)) = old  -> new \o Replace(SubSeq(s, Len(old) + 1, Len(s)), old, new)
      [] OTHER                         -> <<Head(s)>> \o Replace(Tail(s), old, new)

\* return_fileinfo: fileurl.replace(repository.path, repository.url); the
\* result is a file name that get_info opens from the working directory.
InfoFile(rp, id) ==
    LET f == Replace(Fields(id), Fields(rp.path), Fields(UrlPath(rp)))
    IN  Walk(<<>>, IF f # <<>> /\ f[1] = "" THEN f ELSE ScriptDir \o f)

BrowseForms ==
    [kind : {"browse"}, repository : {RepName(r) : r \in Repos} \cup {None},
     type : {"html", "xml"}, id : {None}, installed : {FALSE}]
    \cup
    [kind : {"browse"}, repository : {RepName(r) : r \in Repos} \cup {None},
     type : {"html"}, id : Ids, installed : BOOLEAN]
ManageForms ==
    [kind : {"manage"}, repository : {RepName(r) : r \in Repos},
     upload : UploadNames \cup {None}, data : UploadData,
     delete : DeleteNames \cup {None}]
ConfForms == [kind : {"conf"}, new_conf : Configs]
ChooseForms == [kind : {"choose"}]
Forms == BrowseForms \cup ManageForms \cup ConfForms \cup ChooseForms

-----------------------------------------------------------------------------
Init ==
    /\ fs = {ConfLoc} \cup UNION {{Append(RepoDir(r), f) : f \in InitFiles[r]} :
                                  r \in Repos}
    /\ conf = InitConfig
    /\ pc = [q \in Req |-> "idle"]
    /\ form = [q \in Req |-> None]
    /\ cat = [q \in Req |-> <<>>]
    /\ repo = [q \in Req |-> NewRepository]
    /\ todo = [q \in Req |-> <<>>]
    /\ resp = [q \in Req |-> <<>>]
    /\ removed = {}
    /\ read = [q \in Req |-> <<>>]
    /\ data = [l \in Locs |-> InitData]
    /\ shown = {}
    /\ first = [q \in Req |-> None]

\* Every script first runs provisioning.init(), reading repconf.xml; the
\* form fixes what cgi_main() does next.

\* showbundles.cgi_main: the repository named in the form (get_rep_by_name),
\* else the first of the catalog, else server_is_empty() prints a page and
\* the script carries on with a Repository() object.  With an id field it
\* prints an empty line if installed is set, else the file's description
\* (return_fileinfo); otherwise it lists the repository.
StartBrowse(q) ==
    /\ pc[q] = "idle"
    /\ \E f \in BrowseForms :
         LET c == LoadCatalog IN
         /\ form' = [form EXCEPT ![q] = f]
         /\ cat' = [cat EXCEPT ![q] = c]
         /\ repo' = [repo EXCEPT ![q] =
              CASE f.repository # None -> GetRepByName(c, f.repository)
                [] c # <<>>            -> c[1]
                [] OTHER               -> NewRepository]
         /\ resp' = [resp EXCEPT ![q] =
              (IF f.repository = None /\ c = <<>> THEN <<"no_repository">>
                                                   ELSE <<>>)
              \o (IF f.installed THEN <<"blank">> ELSE <<>>)]
         /\ pc' = [pc EXCEPT ![q] = CASE f.installed   -> "done"
                                      [] f.id # None    -> "info"
                                      [] f.type = "xml" -> "xml_list"
                                      [] OTHER          -> "html_count"]
    /\ UNCHANGED <<fs, conf, todo, removed, read, data, shown, first>>

\* admin_console.cgi_main with a repository field: get_rep_by_name, then
\* add_file if a file was sent, then delete_file if one was named.
StartManage(q) ==
    /\ pc[q] = "idle"
    /\ \E f \in ManageForms :
         /\ form' = [form EXCEPT ![q] = f]
         /\ cat' = [cat EXCEPT ![q] = LoadCatalog]
         /\ repo' = [repo EXCEPT ![q] = GetRepByName(LoadCatalog, f.repository)]
         /\ pc' = [pc EXCEPT ![q] = CASE f.upload # None -> "add"
                                      [] f.delete # None -> "delete"
                                      [] OTHER           -> "html_count"]
    /\ UNCHANGED <<fs, conf, todo, resp, removed, read, data, shown, first>>

\* admin_console.cgi_main with a new_conf field: edit_config.
StartConf(q) ==
    /\ pc[q] = "idle"
    /\ \E f \in ConfForms :
         /\ form' = [form EXCEPT ![q] = f]
         /\ cat' = [cat EXCEPT ![q] = LoadCatalog]
         /\ pc' = [pc EXCEPT ![q] = "truncate"]
    /\ UNCHANGED <<fs, conf, repo, todo, resp, removed, read, data, shown, first>>

\* admin_console.cgi_main with neither field: choose_repository_page.
StartChoose(q) ==
    /\ pc[q] = "idle"
    /\ form' = [form EXCEPT ![q] = [kind |-> "choose"]]
    /\ cat' = [cat EXCEPT ![q] = LoadCatalog]
    /\ pc' = [pc EXCEPT ![q] = "choose"]
    /\ UNCHANGED <<fs, conf, repo, todo, resp, removed, read, data, shown, first>>

-----------------------------------------------------------------------------
(* showbundles.py: process_dir_html / print_rep_table and process_dir_xml. *)
(* Rendering one entry (get_info, os.path.getsize, os.path.getctime) is    *)
(* one step: get_info never raises outward, and the stat calls raise       *)
(* OSError when the file is gone, whichever of them sees it first.         *)

Respond(q, doc) ==
    /\ resp' = [resp EXCEPT ![q] = Append(@, doc)]
    /\ pc' = [pc EXCEPT ![q] = "done"]

\* process_dir_html and manage_repository_page: files_count =
\* len(os.listdir(repository.path)); an empty directory gives a page saying
\* so, a missing one the page's error message.
HtmlCount(q) ==
    LET d == DirOf(repo[q]) IN
    /\ pc[q] = "html_count"
    /\ CASE ~DirExists(d)      -> Respond(q, "error_page")
         [] ListDir(d) = <<>>  -> Respond(q, "page")
         [] OTHER              -> pc' = [pc EXCEPT ![q] = "html_table"]
                                  /\ UNCHANGED resp
    /\ UNCHANGED <<fs, conf, form, cat, repo, todo, removed, read, data, shown, first>>

\* Bug variant of HtmlTable: the table lists the repositories' parent
\* join(SERVER.path, "repository/") instead of repository.path.
HtmlTableServerDir(q) ==
    /\ pc[q] = "html_table"
    /\ todo' = [todo EXCEPT ![q] = ListDir(RepositoryDir.segs)]
    /\ pc' = [pc EXCEPT ![q] = "row"]
    /\ UNCHANGED <<fs, conf, form, cat, repo, resp, removed, read, data, shown, first>>

\* print_rep_table: a second os.listdir; showbundles.py keeps the
\* EXT_TO_SHOW entries, admin_console.py every entry.
HtmlTable(q) ==
    LET all == ListDir(DirOf(repo[q])) IN
    /\ pc[q] = "html_table"
    /\ todo' = [todo EXCEPT ![q] = IF form[q].kind = "browse"
                                     THEN SelectSeq(all, IsDescriptor) ELSE all]
    /\ pc' = [pc EXCEPT ![q] = "row"]
    /\ UNCHANGED <<fs, conf, form, cat, repo, resp, removed, read, data, shown, first>>

\* process_dir_xml: the header is printed, then os.listdir; a missing
\* directory is caught after the header, leaving a cut-off document.
XmlList(q) ==
    LET d == DirOf(repo[q]) IN
    /\ pc[q] = "xml_list"
    /\ IF DirExists(d)
         THEN /\ todo' = [todo EXCEPT ![q] = SelectSeq(ListDir(d), IsDescriptor)]
              /\ pc' = [pc EXCEPT ![q] = "row"]
              /\ UNCHANGED resp
         ELSE /\ Respond(q, "cut_off_xml")
              /\ UNCHANGED todo
    /\ UNCHANGED <<fs, conf, form, cat, repo, removed, read, data, shown, first>>

\* The file as an open() of location l finds it: its current content, or
\* an open that raises (an unreadable file) when it is gone.
Gone(f) == [Content[f]["empty"] EXCEPT !.ok = FALSE]
Opened(l) == IF l \in fs THEN Content[Last(l)][data[l]] ELSE Gone(Last(l))

IsJad(f) == Content[f]["empty"].ext = ".jad"

\* showbundles.py's rows call get_info; for a .jad, get_jad_info opens the
\* file once for the MIDlet-Name loop ...
ReadJadName(q) ==
    LET f == Head(todo[q]) IN
    /\ pc[q] = "row"
    /\ todo[q] # <<>>
    /\ form[q] \in BrowseForms /\ IsJad(f) /\ first[q] = None
    /\ first' = [first EXCEPT ![q] = Opened(Append(DirOf(repo[q]), f))]
    /\ UNCHANGED <<fs, conf, pc, form, cat, repo, todo, resp, removed, read, data, shown>>

\* ... and the rest of the entry: get_info (the second open of a .jad,
\* for parse_manifest), then os.path.getsize, which raises when the file
\* is gone and ends the whole page in the except of process_dir_html or
\* process_dir_xml.
Row(q) ==
    LET f == Head(todo[q])
        l == Append(DirOf(repo[q]), f)
    IN
    /\ pc[q] = "row"
    /\ todo[q] # <<>>
    /\ form[q] \in BrowseForms
    /\ IsJad(f) => first[q] # None
    /\ first' = [first EXCEPT ![q] = None]
    /\ IF l \in fs
         THEN /\ todo' = [todo EXCEPT ![q] = Tail(@)]
              /\ shown' = shown \cup
                    {[loc |-> l,
                      info |-> D!GetInfoReads(IF IsJad(f) THEN first[q] ELSE Opened(l),
                                              Opened(l))]}
              /\ UNCHANGED <<pc, resp>>
         ELSE /\ Respond(q, IF form[q].type = "xml" THEN "cut_off_xml" ELSE "error_page")
              /\ UNCHANGED <<todo, shown>>
    /\ UNCHANGED <<fs, conf, form, cat, repo, removed, read, data>>

\* admin_console.print_rep_table: one row per entry with the getsize and
\* getctime of join(repository.path, x); a vanished file raises into
\* manage_repository_page's except, which prints an error message.
AdminRow(q) ==
    /\ pc[q] = "row"
    /\ todo[q] # <<>>
    /\ form[q] \in ManageForms
    /\ IF Append(DirOf(repo[q]), Head(todo[q])) \in fs
         THEN /\ todo' = [todo EXCEPT ![q] = Tail(@)]
              /\ UNCHANGED <<pc, resp>>
         ELSE /\ Respond(q, "error_page")
              /\ UNCHANGED todo
    /\ UNCHANGED <<fs, conf, form, cat, repo, removed, read, data, shown, first>>

\* The loop is over: the table or </serverContent> is closed.
EndListing(q) ==
    /\ pc[q] = "row"
    /\ todo[q] = <<>>
    /\ Respond(q, IF form[q] \in BrowseForms /\ form[q].type = "xml"
                   THEN "xml" ELSE "page")
    /\ UNCHANGED <<fs, conf, form, cat, repo, todo, removed, read, data, shown, first>>
\* return_fileinfo: get_info on the file the id is turned into; it prints
\* the description, or the sentinel when the file cannot be read.
FileInfo(q) ==
    /\ pc[q] = "info"
    /\ read' = [read EXCEPT ![q] = InfoFile(repo[q], form[q].id)]
    /\ Respond(q, "text")
    /\ UNCHANGED <<fs, conf, form, cat, repo, todo, removed, data, shown, first>>

-----------------------------------------------------------------------------
(* admin/admin_console.py                                                  *)

\* edit_config, add_file and delete_file catch every exception and return
\* (message, false); "false" is an undefined name, so the NameError escapes
\* cgi_main and the top-level handler only writes to stderr: the response
\* is empty.
NameError(q) ==
    /\ pc' = [pc EXCEPT ![q] = "done"]
    /\ UNCHANGED resp

AfterAdd(q) == IF form[q].delete # None THEN "delete" ELSE "html_count"

\* Bug variant of AddFile: the normalised client path is joined as it is,
\* without os.path.basename.
AddFileNoBasename(q) ==
    LET d == DirOf(repo[q])
        n == NormPath(form[q].upload)
    IN
    /\ pc[q] = "add"
    /\ IF n.segs = <<>> \/ ~DirExists(d)
         THEN /\ NameError(q)
              /\ UNCHANGED fs
         ELSE /\ fs' = fs \cup {Walk(<<>>, Join(Path(TRUE, d), n).segs)}
              /\ pc' = [pc EXCEPT ![q] = AfterAdd(q)]
              /\ UNCHANGED resp
    /\ UNCHANGED <<conf, form, cat, repo, todo, removed, read, data, shown, first>>

\* The file add_file writes: the client's name, "\" made "/", normpath'ed
\* and basename'd, in repository.path.
Target(q) == Append(DirOf(repo[q]), BaseName(form[q].upload))

\* add_file: file(target, "w") creates the file or truncates it ...
AddFile(q) ==
    LET base == BaseName(form[q].upload) IN
    /\ pc[q] = "add"
    /\ IF base \in {"", ".", ".."} \/ ~DirExists(DirOf(repo[q]))
         THEN /\ NameError(q)
              /\ UNCHANGED <<fs, data>>
         ELSE /\ fs' = fs \cup {Target(q)}
              /\ data' = [data EXCEPT ![Target(q)] = "empty"]
              /\ pc' = [pc EXCEPT ![q] = "copy"]
              /\ UNCHANGED resp
    /\ UNCHANGED <<conf, form, cat, repo, todo, removed, read, shown, first>>

\* ... then shutil.copyfileobj copies the upload into it, or fails (the
\* disk is full), leaving the file as far as it got, and the except
\* clause returns "false".  The copy writes through this invocation's
\* handle from offset 0: if another add_file has copied into the file
\* since this one truncated it, that content's tail may remain.
CopyFile(q) ==
    /\ pc[q] = "copy"
    /\ \/ /\ data' = [data EXCEPT ![Target(q)] =
                          IF @ = "empty" THEN form[q].data ELSE Overwrite(form[q].data, @)]
          /\ pc' = [pc EXCEPT ![q] = AfterAdd(q)]
          /\ UNCHANGED resp
       \/ /\ NameError(q)
          /\ UNCHANGED data
    /\ UNCHANGED <<fs, conf, form, cat, repo, todo, removed, read, shown, first>>

\* delete_file: os.remove(join(repository.path, filename)).
DeleteFile(q) ==
    LET loc == Walk(<<>>, Join(Path(TRUE, DirOf(repo[q])), form[q].delete).segs)
    IN
    /\ pc[q] = "delete"
    /\ IF loc \in fs
         THEN /\ fs' = fs \ {loc}
              /\ removed' = removed \cup
                    {[req |-> q, named |-> form[q].repository, loc |-> loc]}
              /\ pc' = [pc EXCEPT ![q] = "html_count"]
         ELSE /\ NameError(q)
              /\ UNCHANGED <<fs, removed>>
    /\ UNCHANGED <<conf, form, cat, repo, todo, resp, read, data, shown, first>>

\* write_new_conf: file(..., "w") creates or truncates repconf.xml ...
TruncateConf(q) ==
    /\ pc[q] = "truncate"
    /\ fs' = fs \cup {ConfLoc}
    /\ conf' = "broken"
    /\ pc' = [pc EXCEPT ![q] = "write"]
    /\ UNCHANGED <<form, cat, repo, todo, resp, removed, read, data, shown, first>>

\* ... then writes the new text.  If another invocation wrote the file
\* after this one truncated it, this write lands over those bytes from
\* offset 0; a shorter text leaves the other's tail after </server>, and
\* the parser publishes the new catalog before the tail raises, so the
\* file loads as the new configuration either way.  If conf.write fails
\* (disk full), edit_config's except returns the undefined "false"; what
\* was written so far leaves the file as it was or unparsable.
WriteConf(q) ==
    /\ pc[q] = "write"
    /\ \/ /\ conf' = form[q].new_conf
          /\ pc' = [pc EXCEPT ![q] = "reinit"]
       \/ /\ conf' \in {conf, "broken"}
          /\ NameError(q)
    /\ UNCHANGED <<fs, form, cat, repo, todo, resp, removed, read, data, shown, first>>

\* provisioning.init(SERVER_ROOT) again after edit_config.
Reinit(q) ==
    /\ pc[q] = "reinit"
    /\ cat' = [cat EXCEPT ![q] = LoadCatalog]
    /\ pc' = [pc EXCEPT ![q] = "choose"]
    /\ UNCHANGED <<fs, conf, form, repo, todo, resp, removed, read, data, shown, first>>

\* get_config: file(join(SERVER.path, REPOSITORY_CONFIG)) raises IOError
\* when repconf.xml is gone.
GetConfigRaises == ConfLoc \notin fs

\* choose_repository_page: the catalog, then get_config reads repconf.xml
\* into the text area; if it raises, the except prints an error message.
ChoosePage(q) ==
    /\ pc[q] = "choose"
    /\ Respond(q, IF GetConfigRaises THEN "error_page" ELSE "page")
    /\ UNCHANGED <<fs, conf, form, cat, repo, todo, removed, read, data, shown, first>>

-----------------------------------------------------------------------------
Step(q) ==
    \/ HtmlCount(q) \/ HtmlTable(q) \/ XmlList(q) \/ Row(q) \/ AdminRow(q)
    \/ EndListing(q)
    \/ AddFile(q) \/ CopyFile(q) \/ DeleteFile(q)
    \/ TruncateConf(q) \/ WriteConf(q) \/ Reinit(q) \/ ChoosePage(q)
    \/ FileInfo(q) \/ ReadJadName(q)

Next ==
    \E q \in Req :
        \/ StartBrowse(q) \/ StartManage(q) \/ StartConf(q) \/ StartChoose(q)
        \/ Step(q)

Spec == Init /\ [][Next]_vars

-----------------------------------------------------------------------------
(* Properties                                                              *)

Docs == {"page", "error_page", "xml", "cut_off_xml", "no_repository", "blank",
         "text"}
Pcs == {"idle", "html_count", "html_table", "xml_list", "row", "add",
        "copy", "delete", "truncate", "write", "reinit", "choose", "info",
        "done"}

TypeOK ==
    /\ conf \in Configs \cup {"broken"}
    /\ pc \in [Req -> Pcs]
    /\ form \in [Req -> Forms \cup {None}]
    /\ todo \in [Req -> Seq(Files)]
    /\ resp \in [Req -> Seq(Docs)]
    /\ \A e \in removed : e.req \in Req /\ e.loc \in Seq(STRING)
    /\ read \in [Req -> Seq(STRING)]
    /\ data \in [Locs -> Versions \cup {"empty"}]

\* Uploads never create a file outside a repository directory, whatever
\* name the client sends ("../x", an absolute path, "..", a Windows path),
\* whichever repository object get_rep_by_name hands back, and whatever
\* state repconf.xml is in.  This is about add_file's replace / normpath /
\* basename of the client's file name.
FilesStayInRepositories ==
    \A l \in fs :
        \/ l = ConfLoc
        \/ \E r \in Repos, f \in Files : l = Append(RepoDir(r), f)

\* Spec 5 and 7: a file that disappears between the directory listing and
\* its stat is skipped; a single entry never breaks the whole listing.
\* print_rep_table and process_dir_xml call os.path.getsize outside any
\* per-entry handler.
ListingSurvivesVanishedEntry ==
    \A q \in Req :
        form[q] \in BrowseForms /\ DirExists(DirOf(repo[q])) =>
            Range(resp[q]) \cap {"error_page", "cut_off_xml"} = {}

\* "We're trying to prohibit modification of files out of the repository"
\* (RepXMLHandler.endElement): no admin operation removes repconf.xml.
\* delete_file joins the form's file name to the repository path as is.
ConfigNeverRemoved == ConfLoc \in fs

\* A delete request removes a file only from the repository it names.
\* get_rep_by_name falls back to the first repository of the catalog the
\* invocation loaded when the name is not (or no longer) in it.
DeleteOnlyInNamedRepository ==
    \A e \in removed : Front(e.loc) = NormPath(Join(RepositoryDir, e.named)).segs

\* showbundles.py's infoURI request (id field) describes a file of the
\* repository it is made for: get_info opens that repository's file.  The
\* XML discovery document gives each file's URL as its objectID, and
\* return_fileinfo maps the id with fileurl.replace(repository.path,
\* repository.url), from path to URL.
InfoReadsRepositoryFile ==
    \A q \in Req :
        read[q] # <<>> =>
            \E f \in Files : read[q] = Append(DirOf(repo[q]), f)

\* A listing row describes a complete version of its file: the metadata
\* get_info gives is that of some content the file was uploaded with.
\* add_file opens the target with "w", truncating it, before copying the
\* upload, and showbundles.py reads descriptors without any locking.
ListingShowsCompleteFiles ==
    \A e \in shown :
        e.info \in {D!GetInfo(Content[Last(e.loc)][v]) : v \in Complete}

\* A listing row describes its file as it was at one moment: name and
\* description come from the same content, possibly an empty or missing
\* file, never from two.  get_jad_info opens the file once for the
\* MIDlet-Name loop and again for parse_manifest, and an upload can
\* replace the file in between.
RowDescribesOneVersion ==
    \A e \in shown :
        LET f == Last(e.loc) IN
        e.info \in {D!GetInfo(x) : x \in {Content[f][v] : v \in DOMAIN Content[f]} \cup {Gone(f)}}

\* An upload replaces a repository file completely or not at all: a file
\* is empty only while an add_file is copying into it.  add_file
\* truncates the target before shutil.copyfileobj, and a failed copy
\* leaves it so.
UploadIsAllOrNothing ==
    \A l \in fs \cap Locs :
        data[l] = "empty" => \E q \in Req : pc[q] = "copy" /\ Target(q) = l

\* A repository file holds what one client sent, or what is left of it
\* (empty): never bytes of two uploads.  Each add_file opens the target
\* with "w" and shutil.copyfileobj writes from offset 0 of its own
\* handle, so two uploads of one name that overlap write into one file.
NoMixedContent ==
    \A l \in Locs : data[l] \in Complete \cup {"empty"}
=============================================================================
