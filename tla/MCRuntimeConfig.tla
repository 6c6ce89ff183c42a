-------------------------- MODULE MCRuntimeConfig --------------------------
(***************************************************************************)
(* A small instance of RuntimeConfig: one value besides the file's for     *)
(* each kind of setting, and bodies that change one or two of them.        *)
(***************************************************************************)
EXTENDS RuntimeConfig, TLC

Tag(s) == <<s>>

MCFile ==
    [f \in Fields |->
        CASE f \in {"filter_tags", "retry_codes", "models"} -> <<Tag("file")>>
          [] f = "proxy_enabled"       -> "true"
          [] f = "cf_clearance"        -> ""
          [] f = "selection_algorithm" -> "random"
          [] OTHER                     -> "file"]

MCEdits ==
    {("user_agent" :> "own") @@ ("proxy_enabled" :> "false")
         @@ ("app_key" :> "new") @@ ("retry_codes" :> <<>>),
     ("browser" :> "chrome_133") @@ ("models" :> <<>>)
         @@ ("default_quota" :> "9"),
     ("browser" :> "unknown") @@ ("filter_tags" :> <<<<"a", "b">>, <<>>>>),
     ("app_key" :> "") @@ ("browser" :> "unknown"),
     ("app_settings" :> "new") @@ ("selection_algorithm" :> "none"),
     ("cf_clearance" :> "********")}

MCEnv == "default_quota" :> "env"
MCBrowserUA == "chrome_133" :> "ua133"
MCSolutions ==
    {[cf_clearance |-> "c1", user_agent |-> "ua1", browser |-> "chrome1"],
     [cf_clearance |-> "c2", user_agent |-> "", browser |-> "chrome120"],
     [cf_clearance |-> "", user_agent |-> "ua3", browser |-> "chrome3"]}

EditorSymmetry == Permutations(Editors)
=============================================================================
