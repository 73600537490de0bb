# TLA+ models of the phoneME discovery server

This directory models `src/jump/tools/discovery_server/bin/` with TLA+ and
checks it with TLC. The discovery server is a set of Python CGI scripts
that publish MIDlet/Xlet bundles kept in repository directories. Its code
falls into three parts:

- **provisioning.py** is shared by the scripts. It defines the `Server` and
  `Repository` records, the SAX handler `RepXMLHandler` that reads
  `repository/repconf.xml`, and `init()`, which parses that file into the
  global `SERVER`. It also defines `get_rep_by_name`, the descriptor-metadata
  handler `MyXMLHandler`, `get_config` and `write_new_conf`.
- **showbundles.py** is the public browser. It serves one repository as an
  HTML table (`process_dir_html`, `print_rep_table`) or as an XML
  discovery document (`process_dir_xml`). Descriptor metadata is read with
  `get_info`/`get_jad_info`/`get_dd_info`/`get_jar_info`.
- **admin/admin_console.py** is the administration page. It uploads a file
  into a repository (`add_file`), deletes one (`delete_file`), and rewrites
  `repconf.xml` (`edit_config` → `write_new_conf`).

Each HTTP request is a separate CGI process. The processes share nothing
but the file system. Every process starts by parsing `repconf.xml`. Admin
processes then change the repository directories and the configuration
while browser processes list them. All the concurrency is in these
interleavings, on files and directories, with no locking anywhere.

## Modules

| Module | Models | Kind |
|---|---|---|
| `Provisioning` | `Server`, `Repository`, the path derivation of `RepXMLHandler.endElement` (`os.path.join`, `normpath`, the `startswith` sandbox check), `get_rep_by_name`; `Walk`, the reference path resolution | operators, no variables |
| `RepConf` | `init()` with `RepXMLHandler`: one action per SAX callback, a parse error at any point | state machine, `EXTENDS Provisioning` |
| `CatalogLoad` | what `init()` promises: the catalog is published once, as the sandboxed repositories of the document | abstract state machine |
| `Descriptor` | `get_info` and what it dispatches to: `get_jad_info`, `get_dd_info` with `MyXMLHandler`, `get_jar_info`, `parse_manifest`; reference definitions from spec 4.3 | operators, and one variable for the file being described |
| `DiscoveryServer` | concurrent CGI processes of showbundles.py and admin_console.py over a shared file system and `repconf.xml`, with file contents and `get_info` (`INSTANCE Descriptor`) | state machine, `EXTENDS Provisioning` |
| `MCRepConf`, `MCDescriptor`, `MCDiscoveryServer` | the constants for TLC | model modules |

### Provisioning

A path is a record `[abs, segs]`. `Join` is `os.path.join`: an absolute
second argument replaces the first. `NormPath` is `posixpath.normpath`, a
`FoldLeft` of `NormStep` over the segments. It drops `""` and `"."`, and
`..` cancels the previous segment unless that is itself `..`; at the root
of an absolute path `..` is dropped. `StartsWithRepositoryDir` is
`path.startswith(SERVER.path + "repository/")`. It is true exactly when
the normalised path is absolute and strictly longer than
`<root>/repository`, with that directory as a segment prefix.
`GetRepByName` returns the first repository with that name, else
`content[0]`, else a fresh `Repository()`. `Walk` is the independent
reference. It resolves a path segment by segment against a directory, the
way the kernel does, and the properties compare the derived paths with it.

### RepConf

| Code | Model |
|---|---|
| `RepXMLHandler.path`, `.chars`, `.rep`, `.reps` | `hpath`, `chars`, `rep`, `reps` |
| global `SERVER` | `server` |
| `xml.sax.parse` running / returned / raised | `status` |
| `startElement` (lower-cased name; reads `name` in `<server><repository>`) | `StartElement(t)` |
| `characters` | `Characters` |
| `endElement`: strip, dispatch on the path, reset `chars`, pop | `EndElement`, with `CloseRepository` for `</repository>` |
| parse returns / raises, caught in `init()` | `EndDocument`, `ParseError` |

The parser is the environment. It may deliver any element of `Tags` at any
depth, text anywhere inside the root, and one root element, and it may fail
at any step. This is a superset of the documents the SAX parser accepts,
plus every prefix that ends in an error. `rooted` and `docReps` are history
variables. They hold the document's root and its `<server><repository>`
names, so that properties can compare the catalog with the document.

### CatalogLoad and the refinement

`CatalogLoad` is the contract of `init()`, with no SAX in it. The document
grows by `Declare` (one more `<server><repository>` name). `Publish`
makes the catalog visible once, as `Catalog(doc)`, the names whose
location lies inside the sandbox, in order, each with its location.
After that come `Finish` (the parse returns) or `Fail` (it raises, at any
time). `RepConf` instantiates it as `CL` with the refinement mapping
`doc <- docReps`, `content <-` the catalog with each path's segments,
`published <- rooted /\ hpath = <<>>` and `status <- status`. The run
checks `CatalogLoadRefined == CL!Spec` as a PROPERTY. `Location` and
`InSandbox` are given by `Walk`, the reference resolution, and not by
the `NormPath` the code uses. The refinement therefore shows that
`os.path.join` + `normpath` + `startswith` computes what the kernel would
resolve, and that the catalog cannot change after `</server>` nor appear
before it.

### Descriptor

A `.jad` or manifest line is `[colon, tag, value]`: it contains a colon
or not, its tag, its value as a sequence of tokens where `WS` stands for
whitespace. `ParseManifest` keeps the lines with a colon and an
allow-listed tag (`TO_FETCH`) and concatenates `tag: value` texts.
`JadName` takes the first `MIDlet-Name` line (the `break`) and
`Strip`s it. `GetJadReads(f1, f2)` is `get_jad_info` with its two opens of
the file: the name comes from `f1`, as the first open read the file, and
the description from `f2`, as the second open read it. A `.dd` document is an element tree `[name, text, kids]`.
`Events` turns it into the SAX event sequence. `MyXMLHandler` is a
`FoldLeft` of `HStart`, `HChars` and `HEnd` over those events, building
the path-to-text map `d`. `GetDdInfo` makes its `media/name`,
`media/meta/name` and `media/description`/`media/vendor` choices from
that map. `GetJarInfo` yields a pair only for a readable archive whose
manifest exists. `GetInfoReads(f1, f2)` dispatches on the extension, and
its bare `except` turns anything that is not a pair into (base name,
"cannot read meta information"). `GetInfo(f)` is `GetInfoReads(f, f)`,
a file that does not change while `get_info` runs. The reference definitions `RefDescription`,
`RefFirstName` and `RefDdInfo` are written from spec 4.3 without the
handler: each leaf path maps to its own trimmed text.

### DiscoveryServer

| Code | Model |
|---|---|
| the file system (repository directories, `repconf.xml`) | `fs`, a set of absolute locations |
| contents of `repconf.xml` | `conf`: a configuration id, or `"broken"` (unparsable) while `write_new_conf` is between `open(.., "w")` and `write`, or after a failed write |
| one CGI process | `q \in Req`, with program counter `pc[q]`, form `form[q]` and repository `repo[q]` |
| `init()` + `get_rep_by_name` at process start | `StartBrowse`, `StartManage`, `StartConf`, `StartChoose` (`LoadCatalog`, `GetRepByName`) |
| `process_dir_html` / `manage_repository_page`: the files count | `HtmlCount` |
| `print_rep_table`'s `os.listdir` | `HtmlTable` |
| showbundles.py's row: `get_info` (for a `.jad`, two opens), then `getsize` | `ReadJadName` (the first open, kept in `first[q]`), then `Row` |
| admin_console.py's row: `getsize`, `getctime` | `AdminRow` |
| `process_dir_xml`'s `os.listdir` and rows | `XmlList`, `ReadJadName`, `Row`, `EndListing` |
| `add_file`: normpath/basename of the client name, `open(.., "w")` | `AddFile` (the target exists and is empty) |
| `add_file`: `shutil.copyfileobj`, which may fail | `CopyFile`: the upload's data, or `NameError` with the file left empty; `AfterAdd` for the page after it. If another copy has filled the file since this one truncated it, the result is `Overwrite(new, old)`: the new bytes over the old from offset 0 |
| `return_fileinfo` (`id` field): `replace(repository.path, repository.url)`, `get_info` | `FileInfo`, with `InfoFile` the name opened, kept in `read[q]` |
| a file's contents | `data[l]`, a version from `Versions` or `"empty"`; `Content[f][v]` is the `Descriptor` input it stands for. `Complete` is the contents written whole: `InitData` and `UploadData` |
| `delete_file` (`os.remove(join(path, name))`) | `DeleteFile` |
| `write_new_conf`: truncate, then write; `edit_config`'s except on a failed write | `TruncateConf`, `WriteConf` (the new configuration, or `NameError` with the file as it was or broken) |
| `edit_config` → `init()` again | `Reinit` |
| `choose_repository_page` with `get_config` (raises when `repconf.xml` is gone) | `ChoosePage`, `GetConfigRaises` |
| `return false` (undefined name) escaping `cgi_main` | `NameError` |
| `sys.stdout` of each process | `resp[q]`, the sequence of documents written |

A configuration's catalog is a constant, `Catalog[c]`. The XML parsing is
`RepConf`'s concern. Here it is enough that a missing or unparsable
`repconf.xml` parses to an empty catalog. A write that lands over
another invocation's longer text leaves that text's tail after
`</server>`. The parser has published the new catalog by then, and only
then raises on the tail, so `WriteConf` gives the new configuration. `Row` applies
`D!GetInfoReads` to the row's file, as the first open found it
(`first[q]`) and as it is now (`Opened`). A file that is gone at an open
is `Gone(f)`, a file whose open raises. The result goes into `shown`. Every listing step that reads
the file system is a separate action. This is what lets another process's
delete fall between `os.listdir` and `getsize`. `removed` is a history
variable: the deletions made, with the repository each one was asked for.

## Runs

| Run | cfg | Expect | Shows |
|---|---|---|---|
| `repconf_catalog` | `MCRepConf.cfg` | pass | `TypeOK`, `CatalogLoadRefined`: `init()` implements `CatalogLoad`. The catalog appears only at `</server>`. It is then exactly the document's repositories inside `<root>/repository/`, in order, with the directories their names really lead to, and it never changes afterwards. Covered: `..`, names equal to `repository/`, absolute names, parse errors at every point. |
| `server_uploads` | `MCDiscoveryServer.cfg` | pass | `TypeOK`; `FilesStayInRepositories`: no client file name makes `add_file` write outside a repository directory. |
| `server_vanished_entry` | `..._ListingSurvivesVanishedEntry.cfg` | violation | A concurrent delete between `listdir` and `getsize` breaks the listing. |
| `server_config_removed` | `..._ConfigNeverRemoved.cfg` | violation | `delete_file=../repconf.xml` deletes the configuration. |
| `server_delete_other_repo` | `..._DeleteOnlyInNamedRepository.cfg` | violation | A stale repository name deletes in the first listed repository. |
| `descriptor_extract` | `MCDescriptor.cfg` | pass | `JadInfoMatchesSpec`, `DdInfoMatchesSpec`, `UnreadableFallsBack`: `get_info` agrees with the spec's reference for every `.jad` of up to 3 lines and every `.dd` with text only at the leaves. Every unreadable, malformed or non-archive file gets the fallback. |
| `descriptor_dd_mixed` | `MCDescriptor_DdInfoMatchesSpec.cfg` | violation | Text before a child element leaks into the child: `<meta>x<name>C</name></meta>` names the bundle `xC`. |
| `server_info_read` | `..._InfoReadsRepositoryFile.cfg` | violation | An infoURI request never opens the repository's file. The id is mapped from path to URL, the wrong way. |
| `server_listing_truncated` | `..._ListingShowsCompleteFiles.cfg` | violation | A listing during `add_file` shows the metadata of the truncated file. |
| `server_upload_failure` | `..._UploadIsAllOrNothing.cfg` | violation | A failed copy leaves the target empty, and the old version is lost. |
| `server_upload_overlap` | `..._NoMixedContent.cfg` | violation | Two overlapping uploads of `a.jad` both truncate it before either copies: v2, then the shorter v3. The file is left as `mix`, Baz followed by v2's vendor line, a content no client sent. This takes 7 steps. |
| `server_torn_row` | `..._RowDescribesOneVersion.cfg` | violation | A listing reads `a.jad`'s name (Foo, version 1). An upload then replaces the file, and the row's description comes from version 2. The row pairs a name and a description that no version of the file has. |

PROJECT.json "findings" records what each violation says about the code.
Each property of a passing run has a mutant there. The mutant is a
plausible bug in the mapped code, and TLC catches it under that run's cfg:

- `NormPath` skipped breaks `CatalogLoadRefined`.
- `get_jad_info`'s name loop without its `break` (the last name wins) breaks
  `JadInfoMatchesSpec`.
- `MyXMLHandler.endElement` without `self.chars = ""` breaks
  `DdInfoMatchesSpec`.
- `get_jar_info` returning a pair for a file that is not a zip breaks
  `UnreadableFallsBack`.
- No `basename` in `add_file` breaks `FilesStayInRepositories`.
- Listing the wrong directory breaks `TypeOK`.
- Storing the raw record breaks `TypeOK`.

### Bounds

- **MCRepConf.** There are five tags: `server`, `Repository` (mixed case,
  to exercise `lower()`), `url`, `title` and `description`. Depth is at
  most 3, which reaches `<server><repository><title>`. There are at most
  two repositories, and one text token per element, plus whitespace.
  Repository names are `a`, `../x`, `a/..` and `/srv/repository/b`. Among
  them are one name that is inside the sandbox, one that escapes it, one
  that lands on `repository/` itself, and one absolute name. Two
  repositories are enough to see both order and filtering. The run has
  2.9M distinct states and takes about 30 s.
- **MCDescriptor.** There are three tags (`MIDlet-Name`, `MIDlet-Vendor`
  and `MIDlet-Version`, the last not allow-listed). Values come with and
  without leading whitespace, plus a line with no colon.
  - Every `.jad` of up to three lines, readable or not. Two lines are
    enough for a second `MIDlet-Name`, and three let it follow a vendor
    line.
  - Every archive manifest of up to two lines, or none.
  - Every `.dd` `<media>` with up to two distinct children among name,
    vendor, description and `<meta><name>`.
  - The passing run puts text only at leaves, which is the case spec 4.3
    describes. The violation run adds text before a child element. The
    pass run has 962 states, one per input file.
- **MCDiscoveryServer.** Two concurrent processes, because every hazard
  here involves two processes. Two repositories are enough for a stale
  name to hit the other one. Two files are used, one descriptor and one
  jar, so showbundles.py's listings (HTML and XML) filter by
  `EXT_TO_SHOW` and admin_console.py's listing does not. There are
  two configurations, and one drops `r1`.
  - Upload names: `../b.jar`, `/home/a.jad` and `x/..`. These cover a
    leading `..`, an absolute name, and a name whose basename is `..`.
  - Delete names: `a.jad` and `../repconf.xml`. The cfgs whose violation
    must come from another cause use only plain names.
  - File contents: `a.jad` has three whole versions: v1 (Foo), v2 (Bar
    with a vendor line) and v3 (Baz, shorter than v2). It also has `mix`,
    which is v3 written over v2. `b.jar` has one manifest, and `mix` of it
    is not a zip. The uploads are v2 and v3, so an upload really replaces
    `a.jad`, and two uploads of different lengths can overlap.
    `MCOverwrite` gives `mix` for v3 over v2, and otherwise the new
    content; a longer write covers the shorter one completely.
  - Ids for `return_fileinfo`: the objectID the XML document gives
    `a.jad`, and its file path.
  - The run has about 183k distinct states and takes about 15 s.

### Fairness

No liveness property is checked, and the cfgs use `Spec` without
fairness. Every step of a started process moves its program counter
forward or shortens its listing, and none is ever disabled. So that
processes exit follows from the shape of the model, and says nothing
about the code. Deadlock checking is off in the cfgs, because the system
really may stop: when every process is done, no request needs to arrive.

## Not modelled

- **Concurrent updates of `repconf.xml`.** The specification (section 1)
  lists this as a non-goal. The model keeps the truncate-then-write
  interleaving, but no property claims anything about it.
- **The scripts' working directories.** `Repository()`'s relative path
  `repository/` is resolved against `ScriptDir` (`/srv/bin/admin`) for
  both scripts, although showbundles.py runs in `/srv/bin`. Neither
  directory holds a `repository/`, so no outcome changes.

- **Interleaved chunks of two copies.** `shutil.copyfileobj` copies in
  chunks. The model makes each copy one step, and gives only the final
  overlay of a later copy over an earlier one. Chunks interleaving
  mid-copy would produce more mixed contents of the same kind.
- **HTML and XML text, MIME types (`get_mime_type`) and the page helpers.**
  The model records which document is written, not its bytes. The HTML
  escaping of descriptor text is not modelled.
- **Character-level string operations.** `str.replace` in
  `return_fileinfo` is modelled on path segments, and `strip` on tokens
  where `WS` stands for whitespace.
- **Symbolic links.** `normpath` is not `realpath`, and `fs` has no links.
- **The mapping from configuration to catalog.** In `DiscoveryServer` it is
  a constant (`RepConf` checks the parsing).
- **Listing order.** The order of `os.listdir` is abstracted to one fixed
  enumeration.
- **Sizes and times** shown in the HTML table.

## Plan for later work

1. An abstract listing specification (a snapshot of the directory), with
   `DiscoveryServer` refined to it where the code allows. Any such
   refinement is weak, because each listing reads the directory and the
   files separately (see `server_torn_row`). The abstract snapshot would
   have to allow every torn row.
