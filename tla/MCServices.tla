----------------------------- MODULE MCServices -----------------------------
(***************************************************************************)
(* The server's services beside the spec store, and its clients: API keys  *)
(* and their usage, logins, bearer tokens, tools and commands, managed     *)
(* files, the constitution and the linter.  They share no variable, so a   *)
(* behaviour is one of the component in focus and the others stay as they  *)
(* are.                                                                    *)
(***************************************************************************)
EXTENDS ApiKeys, UsageTracker, Logins, Bearers, Clients, ManagedFiles,
        Constitution, GraphLint

VARIABLE focus

MCVars == <<focus, kVars, uVars, lVars, bVars, cVars, mVars, coVars, gVars>>

Foci == {"keys", "usage", "logins", "bearers", "clients", "files", "constitution", "linter"}

MCInit ==
    /\ focus \in Foci
    \* A component that is not in focus starts in one of its initial states.
    /\ focus = "logins" \/ lConfig = [sync |-> FALSE, mapped |-> None]
    /\ focus = "bearers" \/ (bKind = "jwt" /\ bExpires = Never /\ bProviders = <<"timed">>)
    /\ focus = "clients" \/ (cRole = "reader" /\ cFront = "mcp" /\ cStage = None)
    /\ focus = "files" \/ (mStrategy = "json" /\ mFile = Absent /\ mOldFile = "absent")
    /\ focus = "constitution" \/ cRemote = "none"
    /\ focus = "linter" \/ (gDepends = {} /\ gBlocks = {})
    /\ KInit /\ UInit /\ LInit /\ BInit /\ CInit /\ MInit /\ CoInit /\ GInit

\* Every component but one stays as it is.
Only(s) ==
    /\ UNCHANGED focus
    /\ s # "keys" => UNCHANGED kVars
    /\ s # "usage" => UNCHANGED uVars
    /\ s # "logins" => UNCHANGED lVars
    /\ s # "bearers" => UNCHANGED bVars
    /\ s # "clients" => UNCHANGED cVars
    /\ s # "files" => UNCHANGED mVars
    /\ s # "constitution" => UNCHANGED coVars
    /\ s # "linter" => UNCHANGED gVars

MCNext ==
    \/ focus = "keys" /\ KNext /\ Only("keys")
    \/ focus = "usage" /\ UNext /\ Only("usage")
    \/ focus = "logins" /\ LNext /\ Only("logins")
    \/ focus = "bearers" /\ BNext /\ Only("bearers")
    \/ focus = "clients" /\ CNext /\ Only("clients")
    \/ focus = "files" /\ MNext /\ Only("files")
    \/ focus = "constitution" /\ CoNext /\ Only("constitution")
    \/ focus = "linter" /\ GNext /\ Only("linter")

MCSpec == MCInit /\ [][MCNext]_MCVars

\* The state of every service has its type.
ServicesTypeOK ==
    /\ KTypeOK /\ UTypeOK /\ LTypeOK /\ BTypeOK /\ CTypeOK
    /\ MTypeOK /\ CoTypeOK /\ GTypeOK

Sym == Permutations(Requests)
=============================================================================
