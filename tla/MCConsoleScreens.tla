-------------------------- MODULE MCConsoleScreens --------------------------
(***************************************************************************)
(* A tab of the console shows one screen at a time.  A behaviour follows   *)
(* one of them, with the queries it reads and what awd does meanwhile; the *)
(* others stay as they started.                                            *)
(***************************************************************************)
EXTENDS PolicyScreen, MachinesScreen, AuditScreen, EnrollmentScreen, GroupsScreen,
        ConsoleTheme

VARIABLE screen  \* the screen this behaviour follows

screensVars == <<policyVars, machinesVars, auditVars, enrollScreenVars, groupsVars,
                 themeVars, screen>>

ScreensInit ==
    /\ screen \in {"policy", "machines", "audit", "enrollment", "groups", "theme"}
    /\ PolicyInit /\ (screen # "policy" => latest = Template)
    /\ MachinesInit /\ (screen # "machines" => enrolled = {} /\ at = "machines")
    /\ AuditInit /\ EnrollScreenInit /\ GroupsInit
    /\ ThemeInit /\ (screen # "theme" => works /\ system = "dark" /\ stored = "none")

Rest(name, vars) == screen # name => UNCHANGED vars

ScreensNext ==
    /\ UNCHANGED screen
    /\ \/ screen = "policy" /\ PolicyNext
       \/ screen = "machines" /\ MachinesNext
       \/ screen = "audit" /\ AuditNext
       \/ screen = "enrollment" /\ EnrollScreenNext
       \/ screen = "groups" /\ GroupsNext
       \/ screen = "theme" /\ ThemeNext
    /\ Rest("policy", policyVars) /\ Rest("machines", machinesVars)
    /\ Rest("audit", auditVars) /\ Rest("enrollment", enrollScreenVars)
    /\ Rest("groups", groupsVars) /\ Rest("theme", themeVars)

ScreensSpec == ScreensInit /\ [][ScreensNext]_screensVars
=============================================================================
