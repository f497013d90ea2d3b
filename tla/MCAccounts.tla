----------------------------- MODULE MCAccounts -----------------------------
(* Instances for TLC of the lifecycle of the plugins and of an account that  *)
(* they are bound to.  The two share no state: a behaviour is one of one of  *)
(* them (focus), and one run explores both.                                  *)
EXTENDS MCPluginLifecycle, TelegramAccounts

VARIABLE focus

AccountsOrPluginsInit ==
    /\ focus \in {"plugins", "account"}
    /\ Init /\ (focus # "plugins" => enabled = {} /\ cfg = CHOOSE c \in [Plugins -> Values] : TRUE)
    /\ AccountsInit /\ (focus # "account" => sessionFile)
AccountsOrPluginsNext ==
    /\ UNCHANGED focus
    /\ \/ focus = "plugins" /\ Next /\ UNCHANGED accountVars
       \/ focus = "account" /\ AccountsNext /\ UNCHANGED vars
       \/ focus = "account" /\ halt = "stopped" /\ UNCHANGED <<vars, accountVars>>
AccountsOrPluginsSpec ==
    AccountsOrPluginsInit /\ [][AccountsOrPluginsNext]_<<focus, vars, accountVars>>
=============================================================================
