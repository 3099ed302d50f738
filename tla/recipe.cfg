SPECIFICATION Spec
CONSTANTS
    Users = {"odoo", "port", "sudo", "22"}
    Hosts = {"odoo", "sudo", "22"}
    Ports = {"22", "23"}
    KeyPaths = {"/k", "/k2"}
    Jumps = {"odoo", "22", "port@22"}
    Seconds = {"22", "23"}
    Scripts = {"/odoo-bin"}
    AccessTokens <- TypedAccess
    LaunchTokens <- TypedLaunch
    MaxTokens = 5
INVARIANTS
    ReadsBack
    AllThatWasSaid
    ShellIsFound
CHECK_DEADLOCK FALSE
