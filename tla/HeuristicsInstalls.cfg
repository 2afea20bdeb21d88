\* The engine as built, headless, enforcing: package installs and their
\* children, one of them claiming another parent, runtime sockets, a directory
\* only the ordinary program may write, and a persistence path.
SPECIFICATION Spec
CONSTANTS
    app = app
    npm = npm
    wallet = wallet
    diary = diary
    page = page
    binary = binary
    crontab = crontab
    socket = socket
    NoEntry = NoEntry
    Pid <- Pids3
    Boot <- Boot1
    MaxTime = 3
    Image = {app, npm}
    Installer = {npm}
    File = {socket, binary, crontab}
    CategoryOf <- MCCategoryOf
    Owner <- MCOwner
    ProtectedDir = {binary}
    ProtectedWriter <- AppOwnsBinary
    PersistencePath = {crontab}
    CredentialPath = {}
    RuntimeSocket = {socket}
    ShardOf <- MCShardOf
    AuditMode = FALSE
    Gui = {FALSE}
    Tmux = {FALSE}
    Verdict = {FALSE}
    Sigma = {FALSE}
    Spoof = {1}
    Emits = {"ProcessCreate", "ProcessStop", "FileOpen", "NetworkConnect", "Dup2", "FileWrite", "RegistryWrite"}
    Commands = {}
    PidReuse = FALSE
    IterPinsShard = TRUE
    ConsumerInRuntime = FALSE
    QueueCap = 2
    MaxPrompts = 1
INVARIANTS
    TerminatedMeansGone
    InstallContextInherited
    OnlyOffendersKilled
CHECK_DEADLOCK FALSE
