----------------------------- MODULE MCSettings -----------------------------
(* Small instances of Settings: two administrators at two tabs of one browser. *)
EXTENDS Settings

CONSTANTS t1, t2, b1, u1, u2, r1, r2

MCBrowserOf == [t \in {t1, t2} |-> b1]
Slots == Permutations({r1, r2})
MCReads == {"load"}
MCCommands == {"save", "import", "link"}
MCNeedsAdmin == {"load", "save", "import"}

MCStored == [k \in ToSet(Keys) |->
  CASE k = "email_provider" -> "emailit" [] k = "email_from" -> "a" [] k = "emailit_api_key" -> "k1"
    [] k = "share_enabled" -> "on" [] k = "share_public_url" -> "watch"
    [] OTHER -> ""]
Typeable(k) ==
  CASE k = "public_url" -> {"", "watch"} [] k = "share_public_url" -> {"watch", "staff"}
    [] k = "emailit_api_key" -> {"", "k1"}
    [] OTHER -> {MCStored[k]}
MCValues == [k \in ToSet(Keys) |-> Typeable(k)]
MCEnvironment == [k \in ToSet(Keys) |-> IF k = "public_url" THEN "staff" ELSE ""]
MCImports == {[mode |-> "merge", settings |-> [k \in {"emailit_api_key"} |-> "k1"], profiles |-> <<"p1", "bad">>],
              [mode |-> "replace", settings |-> [k \in {"firm_name"} |-> ""], profiles |-> <<"p1">>]}
=============================================================================
