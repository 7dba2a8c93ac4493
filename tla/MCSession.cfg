SPECIFICATION FairSpec
CONSTANTS
    Threads = {t1, t2}
    StartupLogin = t1
    Main = main
    Commands = {"login", "reload", "logout", "keep", "other"}
    Blocks = {"email", "sms"}
    MaxSessions = 1
    MaxEvents = 2
INVARIANTS
    LoginGreetingHasLogin
PROPERTIES
    ShellLeavesResuming
    SessionCommandsEnd
CHECK_DEADLOCK FALSE
