CONSTANTS
    q1 = q1
    q2 = q2
    None = None
    Req <- MCReq
    Repos <- MCRepos
    Configs <- MCConfigs
    Catalog <- MCCatalog
    InitConfig = "c1"
    Files <- MCFiles
    Descriptors <- MCDescriptors
    InitFiles <- MCInitFiles
    UploadNames <- MCUploadNames
    DeleteNames <- MCDeleteNames
    ScriptDir <- MCScriptDir
    Ids <- MCIds
    Versions <- MCVersions
    InitData = "v1"
    Overwrite <- MCOverwrite
    Content <- MCContent
    UploadData <- MCUploadData
    ServerRoot <- MCRoot
SPECIFICATION Spec
INVARIANT TypeOK
INVARIANT FilesStayInRepositories
CHECK_DEADLOCK FALSE
