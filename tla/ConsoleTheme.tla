---------------------------- MODULE ConsoleTheme ----------------------------
(***************************************************************************)
(* The console's theme: the class on <html>, the choice kept in            *)
(* localStorage (which other tabs of the console write too, and which may  *)
(* throw), and the toggle of RootLayout, which is mounted only while the   *)
(* gate shows the console.                                                 *)
(***************************************************************************)
EXTENDS Naturals

VARIABLES
    theme,    \* what the class on <html> says
    label,    \* ThemeToggle's state
    stored,   \* what localStorage holds, "none" for nothing or another value
    works,    \* localStorage can be used
    system,   \* what the browser prefers
    mounted,  \* ThemeToggle is on screen
    alone     \* history: no other tab wrote, and the preference did not change

themeVars == <<theme, label, stored, works, system, mounted, alone>>

Themes == {"light", "dark"}
Other(t) == IF t = "dark" THEN "light" ELSE "dark"

(* readStored() ?? preferredTheme()                                        *)
currentTheme == IF works /\ stored # "none" THEN stored ELSE system

ThemeInit ==
    /\ works \in BOOLEAN /\ system \in Themes
    /\ stored \in Themes \cup {"none"}
    /\ theme = currentTheme             \* applyStoredTheme(), before the first render
    /\ label = currentTheme
    /\ mounted = FALSE /\ alone = TRUE

LoadPage ==
    /\ theme' = currentTheme
    /\ mounted' = FALSE /\ alone' = TRUE
    /\ UNCHANGED <<label, stored, works, system>>

MountToggle ==
    /\ ~mounted
    /\ mounted' = TRUE
    /\ label' = currentTheme
    /\ UNCHANGED <<theme, stored, works, system, alone>>

UnmountToggle ==
    /\ mounted
    /\ mounted' = FALSE
    /\ UNCHANGED <<theme, label, stored, works, system, alone>>

MutSetStoredTheme(choice) ==
    /\ theme' = choice
    /\ UNCHANGED stored
setStoredTheme(choice) ==
    /\ theme' = choice                  \* applyTheme
    /\ stored' = IF works THEN choice ELSE stored

toggle ==
    /\ mounted
    /\ setStoredTheme(Other(label))
    /\ label' = Other(label)
    /\ UNCHANGED <<works, system, mounted, alone>>

ChangedElsewhere ==
    /\ \/ works /\ stored' \in Themes /\ UNCHANGED system
       \/ system' = Other(system) /\ UNCHANGED stored
    /\ alone' = FALSE
    /\ UNCHANGED <<theme, label, works, mounted>>

ThemeNext == LoadPage \/ MountToggle \/ UnmountToggle \/ toggle \/ ChangedElsewhere

ThemeSpec == ThemeInit /\ [][ThemeNext]_themeVars

-----------------------------------------------------------------------------
ThemeTypeOK ==
    /\ theme \in Themes /\ label \in Themes /\ system \in Themes
    /\ stored \in Themes \cup {"none"}
    /\ works \in BOOLEAN /\ mounted \in BOOLEAN /\ alone \in BOOLEAN

(* The toggle names the theme the page has, also after the gate took it    *)
(* away and brought it back, as long as localStorage keeps the choice and  *)
(* nothing outside the tab changed it.                                     *)
ToggleNamesTheme == mounted /\ works /\ alone => label = theme
=============================================================================
