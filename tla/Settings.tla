------------------------------ MODULE Settings ------------------------------
(***************************************************************************)
(* The firm's settings, and the pages on which administrators change them. *)
(* A setting is a row of its own, and a save writes its keys one after the *)
(* other without a transaction.  A form holds what it loaded and what was  *)
(* typed since, and sends all of it; a secret is never sent to the form,   *)
(* which sends one back only when it was typed or ticked for removal.      *)
(* Export leaves the secrets out, and import does not take them.  Shares   *)
(* and mail read the settings again whenever they need them.  Of the many  *)
(* settings, the module has those that decide something; firm_name stands  *)
(* for the others.  Retention windows are in Retention.                    *)
(* Sources: apps/api: routes/settings, routes/shares, services/settings,   *)
(* email, sms, shares; apps/web: pages/SettingsGeneral, SettingsEmail,     *)
(* SettingsSharing, SettingsBackup.                                        *)
(***************************************************************************)
EXTENDS WebSession, SequencesExt

CONSTANTS
  Values,      \* what may be typed for each setting
  Stored0,     \* the settings to begin with
  Environment, \* what the environment of the API says where a setting is blank
  Imports,     \* the files an administrator may import, each with its mode
  Profiles,    \* names of form profiles
  Groups       \* the settings pages that are used

Blank == ""
Secrets == {"emailit_api_key", "twilio_auth_token"}
(* SETTING_DEFAULTS, in its order. *)
Keys == <<"firm_name", "email_provider", "emailit_api_key", "email_from", "public_url", "share_enabled",
          "share_public_url", "sms_provider", "twilio_account_sid", "twilio_auth_token", "twilio_from">>
Settable == ToSet(Keys)
Defaults == [k \in Settable |-> CASE k = "email_provider" -> "none" [] k = "share_enabled" -> "off" [] OTHER -> Blank]

(* Each page: the keys its form sends, in the order they are written, and its secret, written last. *)
KeysOf == [general |-> <<"firm_name">>,
           email |-> <<"email_provider", "email_from", "public_url">>,
           sharing |-> <<"share_enabled", "share_public_url", "sms_provider", "twilio_account_sid", "twilio_from">>]
SecretOf == [general |-> None, email |-> "emailit_api_key", sharing |-> "twilio_auth_token"]

(* What a setting may hold; the values of an imported file are taken as they are. *)
Texts == {Blank, "none", "off"} \cup UNION {Values[k] : k \in Settable}

ASSUME SettingsAssumption ==
  /\ PageReads = {"load"} /\ PageCommands = {"save", "import", "link"}
  /\ NeedsAdmin = {"load", "save", "import"}
  /\ Groups \subseteq DOMAIN KeysOf
  /\ DOMAIN Values = Settable /\ DOMAIN Environment = Settable
  /\ Stored0 \in [Settable -> Texts]
  /\ \A f \in Imports : /\ f.mode \in {"merge", "replace"}
                        /\ f.settings \in [DOMAIN f.settings -> Texts]
                        /\ f.profiles \in Seq(Profiles \cup {"bad"})

VARIABLES
  stored,    \* the rows of settings, with the defaults where there is none
  profiles,  \* the form profiles on disk
  form,      \* per tab: the form on the screen
  work       \* per call under way: what its handler still has to do

settingVars == <<stored, profiles, form, work>>
allVars == <<vars, settingVars>>

NoForm == [group |-> "none", inputs |-> <<>>, known |-> FALSE, key |-> Blank, clear |-> FALSE, touched |-> FALSE]
NoWork == [stage |-> "none", group |-> "none", writes |-> <<>>, touched |-> FALSE,
           mode |-> "none", profiles |-> <<>>, seen |-> <<>>, known |-> FALSE]

(* Mutant: a page outlives the person it was opened for. *)
Mounted_Stays == form' = form

(* Every page but the account page goes when the tab no longer shows a person who may see it. *)
Mounted == form' = [t \in Tabs |-> IF Shows(tab'[t], "admin") THEN form[t] ELSE NoForm]

Waited == work' = [r \in Requests |-> IF call'[r] = Idle THEN NoWork ELSE work[r]]

SettingsInit ==
  /\ Init
  /\ stored = Stored0
  /\ profiles = {}
  /\ form = [t \in Tabs |-> NoForm]
  /\ work = [r \in Requests |-> NoWork]

Effective(k) == IF stored[k] # Blank THEN stored[k] ELSE Environment[k]
EmailOn == /\ stored["email_provider"] = "emailit"
           /\ Effective("emailit_api_key") # Blank /\ stored["email_from"] # Blank
SmsOn == /\ Effective("sms_provider") = "twilio" /\ Effective("twilio_account_sid") # Blank
         /\ Effective("twilio_auth_token") # Blank /\ Effective("twilio_from") # Blank
WatchAddress == Effective("share_public_url")
SharingOn == stored["share_enabled"] = "on" /\ WatchAddress # Blank /\ (EmailOn \/ SmsOn)

-----------------------------------------------------------------------------
(* The pages. *)

Pending(r, w) == work' = [work EXCEPT ![r] = w]
FormOf(r) == form[call[r].tab]

(* Going to a page: its form appears when the settings arrive. *)
OpenForm(r, t, g) ==
  /\ PageCall(r, t, "load")
  /\ form' = [form EXCEPT ![t] = NoForm]
  /\ Pending(r, [NoWork EXCEPT !.group = g])
  /\ UNCHANGED <<stored, profiles>>

HasForm(t) == form[t].group # "none" /\ ~Acting(t)
EditForm(t, f) == form' = [form EXCEPT ![t] = f] /\ UNCHANGED <<vars, stored, profiles, work>>

TypeInput(t, k, v) ==
  /\ HasForm(t) /\ k \in DOMAIN form[t].inputs /\ v \in Values[k] \ {form[t].inputs[k]}
  /\ EditForm(t, [form[t] EXCEPT !.inputs[k] = v])

TypeSecret(t, v) ==
  /\ HasForm(t) /\ SecretOf[form[t].group] # None /\ v \in Values[SecretOf[form[t].group]] \ {form[t].key}
  /\ ~form[t].clear
  /\ EditForm(t, [form[t] EXCEPT !.key = v, !.touched = v # Blank])

(* The box is offered when a key is stored; it wins over what was typed. *)
TickRemove(t) ==
  /\ HasForm(t) /\ form[t].known
  /\ EditForm(t, [form[t] EXCEPT !.clear = ~@, !.touched = ~form[t].clear \/ form[t].key # Blank])

(* Mutant: a blank secret is sent like any other input. *)
SecretSent_Blank(f) ==
  IF SecretOf[f.group] = None THEN <<>> ELSE <<[key |-> SecretOf[f.group], value |-> IF f.clear THEN Blank ELSE f.key]>>

(* A blank secret is left out of the body: the stored one is kept. *)
SecretSent(f) ==
  IF f.clear THEN <<[key |-> SecretOf[f.group], value |-> Blank]>>
  ELSE IF f.key # Blank THEN <<[key |-> SecretOf[f.group], value |-> f.key]>> ELSE <<>>

Save(r, t) ==
  LET f == form[t]  keys == KeysOf[f.group] IN
  /\ HasForm(t) /\ PageCall(r, t, "save")
  /\ Pending(r, [NoWork EXCEPT !.stage = "check", !.group = f.group, !.touched = f.touched,
       !.writes = [i \in DOMAIN keys |-> [key |-> keys[i], value |-> f.inputs[keys[i]]]] \o SecretSent(f)])
  /\ UNCHANGED <<stored, profiles, form>>

(* A save that was taken empties the secret and its box; the inputs keep what they hold. *)
Saved(f) == [f EXCEPT !.key = Blank, !.clear = FALSE]

HearSaved(r) ==
  /\ call[r].kind = "save" /\ HearThenRead(r, "load")
  /\ form' = [form EXCEPT ![call[r].tab] =
                IF @.group = work[r].group THEN [Saved(@) EXCEPT !.touched = FALSE] ELSE @]
  /\ Pending(r, [NoWork EXCEPT !.group = work[r].group])
  /\ UNCHANGED <<stored, profiles>>

(* The settings arrive, if the page is still there: a form keeps its inputs, and learns whether a
   secret is stored. *)
HearLoad(r) ==
  LET t == call[r].tab  f == form[t] IN
  /\ call[r].kind = "load" /\ HearPage(r)
  /\ form' = [form EXCEPT ![t] =
       IF call[r].status # "ok" \/ ~Shows(tab[t], "admin") THEN NoForm
       ELSE IF f.group = work[r].group THEN [f EXCEPT !.known = work[r].known]
       ELSE [NoForm EXCEPT !.group = work[r].group, !.inputs = work[r].seen, !.known = work[r].known]]
  /\ Pending(r, NoWork)
  /\ UNCHANGED <<stored, profiles>>

(* The others, and every refused save, only show a message. *)
HearOther(r) ==
  /\ HearPage(r)
  /\ \/ call[r].kind \in {"user", "import", "link"}
     \/ call[r].kind = "save" /\ call[r].status # "ok"
  /\ Pending(r, NoWork)
  /\ UNCHANGED <<stored, profiles, form>>

(* The backup page sends the file an administrator picks. *)
Import(r, t, f) ==
  /\ PageCall(r, t, "import")
  /\ Pending(r, [NoWork EXCEPT !.stage = "import", !.mode = f.mode, !.profiles = f.profiles, !.seen = f.settings])
  /\ form' = [form EXCEPT ![t] = NoForm]
  /\ UNCHANGED <<stored, profiles>>

(* The panel of a job sends a client a link, by one of the two channels. *)
SendLink(r, t, channel) ==
  /\ PageCall(r, t, "link")
  /\ Pending(r, [NoWork EXCEPT !.stage = "check", !.group = channel])
  /\ form' = [form EXCEPT ![t] = NoForm]
  /\ UNCHANGED <<stored, profiles>>

-----------------------------------------------------------------------------
(* The handlers, from one read or write to the next. *)

At(r, kind, stage) == Admitted(r, kind) /\ work[r].stage = stage
Rows == UNCHANGED <<vars, form>>
Done(r, status) == PageDone(r, status) /\ UNCHANGED form

(* GET: one read of all settings; secrets stay behind. *)
ReadSettings(r) ==
  LET g == work[r].group IN
  /\ Admitted(r, "load") /\ Done(r, "ok")
  /\ Pending(r, [work[r] EXCEPT !.seen = [k \in ToSet(KeysOf[g]) |-> stored[k]],
                                !.known = SecretOf[g] # None /\ stored[SecretOf[g]] # Blank])
  /\ UNCHANGED <<stored, profiles>>

(* The watch address must differ from the staff address stored now. *)
SaveFits(r) ==
  \A i \in DOMAIN work[r].writes :
    work[r].writes[i].key = "share_public_url" /\ work[r].writes[i].value # Blank =>
      work[r].writes[i].value # Effective("public_url")

CheckSave(r) ==
  /\ At(r, "save", "check")
  /\ IF SaveFits(r) THEN Pending(r, [work[r] EXCEPT !.stage = "write"]) /\ Rows
     ELSE Done(r, "refused") /\ UNCHANGED work
  /\ UNCHANGED <<stored, profiles>>

Writing(r) == call[r].pc = "admitted" /\ work[r].stage = "write" /\ DOMAIN work[r].writes # {}

(* setSetting: one row inserted or overwritten, the first of those left. *)
WriteKey(r, i) ==
  LET w == work[r].writes IN
  /\ Writing(r) /\ i \in DOMAIN w /\ \A j \in DOMAIN w : i <= j
  /\ stored' = [stored EXCEPT ![w[i].key] = w[i].value]
  /\ Pending(r, [work[r] EXCEPT !.writes = [j \in DOMAIN w \ {i} |-> w[j]]])
  /\ Rows /\ UNCHANGED profiles

SaveDone(r) ==
  /\ At(r, "save", "write") /\ DOMAIN work[r].writes = {}
  /\ Done(r, "ok")
  /\ UNCHANGED <<stored, profiles, work>>

(* Mutant: import takes the secrets a file names. *)
Importable_All(f) == IF f.mode = "replace" THEN Settable ELSE DOMAIN f.seen \cap Settable

(* Replace goes through all settings, merge through those of the file; neither through a secret. *)
Importable(f) == {k \in Settable \ Secrets : f.mode = "replace" \/ k \in DOMAIN f.seen}

(* No value of the file is looked at: a setting takes what the file says, or its default. *)
BeginImport(r) ==
  LET w == work[r] IN
  /\ At(r, "import", "import")
  /\ Pending(r, [w EXCEPT !.stage = "write",
       !.writes = [i \in {n \in DOMAIN Keys : Keys[n] \in Importable(w)} |->
         [key |-> Keys[i], value |-> IF Keys[i] \in DOMAIN w.seen THEN w.seen[Keys[i]] ELSE Defaults[Keys[i]]]]])
  /\ Rows /\ UNCHANGED <<stored, profiles>>

(* The settings are in; a replacing file with profiles first removes those on disk. *)
ImportProfiles(r) ==
  /\ At(r, "import", "write") /\ DOMAIN work[r].writes = {}
  /\ Pending(r, [work[r] EXCEPT !.stage = "profiles"])
  /\ profiles' = IF work[r].mode = "replace" /\ work[r].profiles # <<>> THEN {} ELSE profiles
  /\ Rows /\ UNCHANGED stored

(* A bad name ends the import where it is. *)
ImportProfile(r) ==
  LET left == work[r].profiles IN
  /\ At(r, "import", "profiles")
  /\ IF left = <<>> THEN Done(r, "ok") /\ UNCHANGED <<profiles, work>>
     ELSE IF Head(left) = "bad" THEN Done(r, "refused") /\ UNCHANGED <<profiles, work>>
     ELSE /\ profiles' = profiles \cup {Head(left)}
          /\ Pending(r, [work[r] EXCEPT !.profiles = Tail(@)])
          /\ Rows
  /\ UNCHANGED stored

ChannelOn(channel) == IF channel = "sms" THEN SmsOn ELSE EmailOn

(* sharingStatus reads the settings four times in a row; once here. *)
CheckLink(r) ==
  /\ At(r, "link", "check")
  /\ IF SharingOn /\ ChannelOn(work[r].group) THEN Pending(r, [work[r] EXCEPT !.stage = "address"]) /\ Rows
     ELSE Done(r, "refused") /\ UNCHANGED work
  /\ UNCHANGED <<stored, profiles>>

(* createShare reads the address once more, ... *)
ReadAddress(r) ==
  /\ At(r, "link", "address")
  /\ Pending(r, [work[r] EXCEPT !.stage = "send", !.seen = [k \in {"share_public_url"} |-> WatchAddress]])
  /\ Rows /\ UNCHANGED <<stored, profiles>>

(* ... and the message is sent when its channel is still on. *)
DeliverLink(r) ==
  /\ At(r, "link", "send")
  /\ Done(r, IF ChannelOn(work[r].group) THEN "ok" ELSE "refused")
  /\ UNCHANGED <<stored, profiles, work>>

-----------------------------------------------------------------------------
Handle(r) ==
  \/ ReadSettings(r) \/ CheckSave(r) \/ SaveDone(r) \/ (\E i \in DOMAIN work[r].writes : WriteKey(r, i))
  \/ BeginImport(r) \/ ImportProfiles(r) \/ ImportProfile(r)
  \/ CheckLink(r) \/ ReadAddress(r) \/ DeliverLink(r)
HearSettings(r) == HearSaved(r) \/ HearLoad(r) \/ HearOther(r)
Page(r, t) ==
  \/ \E g \in Groups : OpenForm(r, t, g)
  \/ Save(r, t)
  \/ \E f \in Imports : Import(r, t, f)
  \/ \E c \in {"email", "sms"} : SendLink(r, t, c)
Edit(t) == \/ \E k \in Settable : \E v \in Values[k] : TypeInput(t, k, v)
           \/ \E s \in Secrets : \E v \in Values[s] : TypeSecret(t, v)
           \/ TickRemove(t)

(* The steps of WebSession that no settings page takes part in. *)
Elsewhere ==
  /\ \/ \E r \in Requests : \/ Serve(r) \/ Hear(r)
                            \/ \E t \in Tabs : Navigate(r, t) \/ Act(r, t)
     \/ \E s \in Sessions : Expire(s)
  /\ Mounted /\ Waited /\ UNCHANGED <<stored, profiles>>

(* A lost load takes its form away. *)
LoseCall(r) ==
  /\ Lose(r)
  /\ form' = [t \in Tabs |->
       IF ~Shows(tab'[t], "admin") \/ (t = call[r].tab /\ call[r].kind = "load") THEN NoForm ELSE form[t]]
  /\ Waited /\ UNCHANGED <<stored, profiles>>

DropCall(r) == Drop(r) /\ Pending(r, NoWork) /\ UNCHANGED <<stored, profiles, form>>

SettingsNext ==
  \/ Elsewhere
  \/ \E r \in Requests : \/ Handle(r) \/ HearSettings(r) \/ LoseCall(r) \/ DropCall(r)
                         \/ \E t \in Tabs : Page(r, t)
  \/ \E t \in Tabs : Edit(t)

SettingsSpec == SettingsInit /\ [][SettingsNext]_allVars

(* The API answers, and answers reach the page that waits for them. *)
Fairness ==
  \A r \in Requests : WF_allVars((Serve(r) \/ Hear(r)) /\ Mounted /\ Waited /\ UNCHANGED <<stored, profiles>>)

FairSpec == SettingsSpec /\ Fairness

-----------------------------------------------------------------------------
TypeOK ==
  /\ SessionsTypeOK
  /\ stored \in [Settable -> Texts]
  /\ profiles \subseteq Profiles
  /\ \A t \in Tabs : form[t].group # "none" => /\ DOMAIN form[t].inputs = ToSet(KeysOf[form[t].group])
                                              /\ Shows(tab[t], "admin")
  /\ \A r \in Requests : work[r] # NoWork => call[r].kind \in PageReads \cup PageCommands

(* SettingsBackup.tsx:36, routes/settings.ts:117 "Omit to keep the stored key", settings.ts:49: the
   API key and the token are written only by a save in whose form an administrator typed a new one
   or ticked its removal since that form was last saved; never by an import, by a form that was
   left open, or by two saves and an import that overtake each other. *)
SecretsKept ==
  [][\A r \in Requests : \A i \in DOMAIN work[r].writes :
       WriteKey(r, i) /\ work[r].writes[i].key \in Secrets => call[r].kind = "save" /\ work[r].touched]_allVars

(* SettingsSharing.tsx:107 "It must differ from the staff address."  Only one of the two pages
   checks it: see README. *)
AddressesDiffer == stored["share_public_url"] # Blank => stored["share_public_url"] # stored["public_url"]

(* SettingsBackup.tsx:26 "Import failed": an import that is refused has changed nothing.  See README. *)
RefusedImportIsNone ==
  [][\A r \in Requests : At(r, "import", "profiles") /\ call'[r].status = "refused" =>
       stored = Stored0 /\ profiles = {}]_allVars

=============================================================================
