--------------------------- MODULE UserCredentials ---------------------------
(***************************************************************************)
(* How people give Kally their own credentials and take them back: the     *)
(* slash command /kally and the modals of the gateway (app.ts,             *)
(* enrollment.ts), the vault's client (vault-client.ts) and the vault      *)
(* (store.ts, index.ts, providers.ts, audit.ts), and the calls of          *)
(* remote-cli that need them.  An ask is what one person does: a command,  *)
(* a button, a form or a call of a tool.  It waits for the vault, which    *)
(* serves one request at a time, or for Slack, and then tells what came of *)
(* it.  A secret is a model value; an empty field and one the vault        *)
(* refuses are two more.                                                   *)
(***************************************************************************)
EXTENDS Integers, FiniteSets, Sequences, Rules

CONSTANTS Ask, Person, Words, Secrets, MaxVaultFaults

\* A reply is one field here, the code has a status and a body.
ASSUME CredAssumption == "not_found" \notin Secrets

EnrollProvider == {"salesforce", "atlassian"}

VARIABLES asks,      \* [Ask -> what is asked, how far it is, what was told]
          creds,     \* the vault's file: [<<person, provider>> -> secret]
          seen,      \* [Ask -> the files there have been since it was made]
          audit,     \* lines in the audit log
          vaultUp, vaultFaults
credVars == <<asks, creds, seen, audit, vaultUp, vaultFaults>>

------------------------------------------------------------------------------
\* The text after /kally, and what a button or a form says.
Second(text) == IF Len(text) > 1 /\ text[2] \in EnrollProvider THEN text[2] ELSE "picker"

parseCommandText(text) ==
    FirstOf(<<
      <<text = <<>> \/ text = <<"help">>, [kind |-> "help"]>>,
      <<text # <<>> /\ text[1] = "connect", [kind |-> "modal", provider |-> Second(text)]>>,
      <<text # <<>> /\ text[1] = "status", [kind |-> "list"]>>,
      <<text # <<>> /\ text[1] = "disconnect" /\ Second(text) = "picker", [kind |-> "which"]>>,
      <<text # <<>> /\ text[1] = "disconnect", [kind |-> "delete", provider |-> Second(text)]>>,
      <<TRUE, [kind |-> "unknown"]>> >>)

\* Required fields are looked at by the gateway, their form by the vault's schemas.
missing(form) == form.value = "blank"
validateCred(form) == form.value \in Secrets

\* A submitted form: its callback names the provider; the picker's own form has none.
handleSubmission(form) ==
    FirstOf(<<
      <<form.callback \notin EnrollProvider, [kind |-> "nothing"]>>,
      <<missing(form), [kind |-> "required"]>>,
      <<TRUE, [kind |-> "put", provider |-> form.callback, value |-> form.value]>> >>)

\* A button of the picker puts the provider's form in its place.
pickerAction(provider) == [kind |-> "modal", provider |-> provider]

\* A tool of an upstream that takes the caller's own credentials.
perUserCall(provider) == [kind |-> "get", provider |-> provider]

WhatIsAsked ==
    {parseCommandText(text) : text \in Words}
      \cup {pickerAction(p) : p \in EnrollProvider}
      \cup {handleSubmission(form) :
              form \in [callback : EnrollProvider \cup {"connect_picker"},
                        value : Secrets \cup {"blank", "refused"}]}
      \cup {perUserCall("salesforce")}

NeedsVault(what) == what.kind \in {"list", "delete", "put", "get"}

------------------------------------------------------------------------------
CredInit ==
    /\ asks = [a \in Ask |-> [stage |-> "idle", what |-> [kind |-> "nothing"], reply |-> "", told |-> ""]]
    /\ creds = <<>>
    /\ seen = [a \in Ask |-> {}]
    /\ audit = 0
    /\ vaultUp = TRUE
    /\ vaultFaults = 0

Key(a) == <<asks[a].by, asks[a].what.provider>>

\* What can be answered at once is; a modal and the vault are waited for.
ReceiveAsk(a, by, what) ==
    /\ asks[a].stage = "idle"
    /\ asks' = [asks EXCEPT ![a] =
           [by |-> by, what |-> what, reply |-> "",
            stage |-> IF NeedsVault(what) THEN "asked" ELSE IF what.kind = "modal" THEN "opening" ELSE "told",
            told |-> IF NeedsVault(what) \/ what.kind = "modal" THEN "" ELSE what.kind]]
    /\ seen' = [seen EXCEPT ![a] = {creds}]
    /\ UNCHANGED <<creds, audit, vaultUp, vaultFaults>>

\* views.open or views.update: the form is there, or the person is told it is not.
openEnrollmentModal(a, ok) ==
    /\ asks[a].stage = "opening"
    /\ asks' = [asks EXCEPT ![a].stage = "told", ![a].told = IF ok THEN "form" ELSE "could not open"]
    /\ UNCHANGED <<creds, seen, audit, vaultUp, vaultFaults>>

\* The vault's file changes: every open ask has lived through the new one too.
Saved(file) ==
    /\ creds' = file
    /\ seen' = [a \in Ask |-> IF asks[a].stage = "idle" THEN {} ELSE seen[a] \cup {file}]

Reply(a, reply) == /\ asks' = [asks EXCEPT ![a].stage = "served", ![a].reply = reply]
                   /\ audit' = audit + 1

\* Mutant of vaultDelete: what was not there is answered like what was removed.
DeletesAnyway(a) ==
    /\ asks[a].stage = "asked" /\ asks[a].what.kind = "delete"
    /\ vaultUp
    /\ Saved([k \in DOMAIN creds \ {Key(a)} |-> creds[k]])
    /\ Reply(a, "ok")
    /\ UNCHANGED <<vaultUp, vaultFaults>>

\* VaultStore.put and the route that calls it: checked, written as one file, answered.
vaultPut(a) ==
    /\ asks[a].stage = "asked" /\ asks[a].what.kind = "put"
    /\ vaultUp
    /\ IF validateCred(asks[a].what)
       THEN /\ Saved([k \in DOMAIN creds \cup {Key(a)} |->
                         IF k = Key(a) THEN asks[a].what.value ELSE creds[k]])
            /\ Reply(a, "ok")
       ELSE Reply(a, "rejected") /\ UNCHANGED <<creds, seen>>
    /\ UNCHANGED <<vaultUp, vaultFaults>>

vaultDelete(a) ==
    /\ asks[a].stage = "asked" /\ asks[a].what.kind = "delete"
    /\ vaultUp
    /\ IF Key(a) \in DOMAIN creds
       THEN Saved([k \in DOMAIN creds \ {Key(a)} |-> creds[k]]) /\ Reply(a, "ok")
       ELSE Reply(a, "not_found") /\ UNCHANGED <<creds, seen>>
    /\ UNCHANGED <<vaultUp, vaultFaults>>

\* Reading one record, or the names of all of a person's.
vaultGet(a) ==
    /\ asks[a].stage = "asked" /\ asks[a].what.kind = "get"
    /\ vaultUp
    /\ Reply(a, IF Key(a) \in DOMAIN creds THEN creds[Key(a)] ELSE "not_found")
    /\ UNCHANGED <<creds, seen, vaultUp, vaultFaults>>

listByUser(a) ==
    /\ asks[a].stage = "asked" /\ asks[a].what.kind = "list"
    /\ vaultUp
    /\ Reply(a, IF \E p \in EnrollProvider : <<asks[a].by, p>> \in DOMAIN creds THEN "some" ELSE "none")
    /\ UNCHANGED <<creds, seen, vaultUp, vaultFaults>>

\* The vault's client never throws: no connection, no answer in five seconds and an answer
\* that is an error are all a result with a status.  The vault may have done it, or do it later.
NoAnswer(a) ==
    /\ asks[a].stage \in {"asked", "served"}
    /\ vaultUp => vaultFaults < MaxVaultFaults
    /\ vaultFaults' = IF vaultUp THEN vaultFaults + 1 ELSE vaultFaults
    /\ asks' = [asks EXCEPT ![a].stage = "served",
                            ![a].reply = IF @ = "" THEN "no answer" ELSE "answer lost"]
    /\ UNCHANGED <<creds, seen, audit, vaultUp>>

\* A put or a delete whose asker has given up reaches the vault after all.
LateEffect(a) ==
    /\ asks[a].stage \in {"served", "told"} /\ asks[a].reply = "no answer"
    /\ vaultUp /\ vaultFaults < MaxVaultFaults
    /\ vaultFaults' = vaultFaults + 1
    /\ \/ /\ asks[a].what.kind = "put" /\ validateCred(asks[a].what)
          /\ Saved([k \in DOMAIN creds \cup {Key(a)} |->
                       IF k = Key(a) THEN asks[a].what.value ELSE creds[k]])
       \/ /\ asks[a].what.kind = "delete"
          /\ Saved([k \in DOMAIN creds \ {Key(a)} |-> creds[k]])
    /\ audit' = audit + 1
    /\ UNCHANGED <<asks, vaultUp>>

\* The vault stops and starts again with the file it had.
VaultStops == vaultUp /\ vaultFaults < MaxVaultFaults /\ vaultFaults' = vaultFaults + 1 /\ vaultUp' = FALSE
              /\ UNCHANGED <<asks, creds, seen, audit>>
VaultStarts == ~vaultUp /\ vaultUp' = TRUE /\ UNCHANGED <<asks, creds, seen, audit, vaultFaults>>

\* The sentence each answer of the vault is turned into.
Sentence(what, reply) ==
    CASE what.kind = "put" -> IF reply = "ok" THEN "saved" ELSE "vault rejected"
      [] what.kind = "delete" -> CASE reply = "ok" -> "removed"
                                   [] reply = "not_found" -> "nothing to disconnect"
                                   [] OTHER -> "could not remove"
      [] what.kind = "list" -> IF reply = "some" THEN "connected" ELSE "nothing connected yet"
      [] what.kind = "get" -> CASE reply = "not_found" -> "enroll"
                                [] reply \in {"no answer", "answer lost"} -> "try again"
                                [] OTHER -> "called"

\* The response_url, the modal, the direct message or the tool's result says it.
Tell(a) ==
    /\ asks[a].stage = "served"
    /\ asks' = [asks EXCEPT ![a].stage = "told", ![a].told = Sentence(asks[a].what, asks[a].reply)]
    /\ UNCHANGED <<creds, seen, audit, vaultUp, vaultFaults>>

CredNext ==
    \/ \E a \in Ask : \/ \E by \in Person, what \in WhatIsAsked : ReceiveAsk(a, by, what)
                      \/ \E ok \in BOOLEAN : openEnrollmentModal(a, ok)
                      \/ vaultPut(a) \/ vaultDelete(a) \/ vaultGet(a) \/ listByUser(a)
                      \/ NoAnswer(a) \/ LateEffect(a) \/ Tell(a)
    \/ VaultStops \/ VaultStarts

CredSpec == CredInit /\ [][CredNext]_credVars

------------------------------------------------------------------------------
Had(a, k, v) == \E file \in seen[a] : k \in DOMAIN file /\ file[k] = v
Lacked(a, k) == \E file \in seen[a] : k \notin DOMAIN file

Connected(a) == \E file \in seen[a] : \E p \in EnrollProvider : <<asks[a].by, p>> \in DOMAIN file
Unconnected(a) == \E file \in seen[a] : \A p \in EnrollProvider : <<asks[a].by, p>> \notin DOMAIN file

\* What people are told about what the vault has was true at some moment since they
\* asked: saved, removed, nothing to remove, not enrolled, connected or not, and what a
\* tool was called with, whoever else asks, whatever is lost on the way and whatever the
\* vault still does late.  It is not asked of the status when no answer came (StatusTrue),
\* and the sentences that own to a failure say nothing of what the vault has; but "vault
\* rejected", which a form without an answer shows too, may follow on a change that was made.
AnswersTrue ==
    \A a \in Ask : asks[a].stage = "told" =>
        /\ asks[a].told = "saved" => Had(a, Key(a), asks[a].what.value)
        /\ asks[a].told = "removed" => Lacked(a, Key(a)) /\ \E v \in Secrets : Had(a, Key(a), v)
        /\ asks[a].told \in {"nothing to disconnect", "enroll"} => Lacked(a, Key(a))
        /\ asks[a].told = "called" => Had(a, Key(a), asks[a].reply)
        /\ asks[a].told = "connected" => Connected(a)
        /\ asks[a].told = "nothing connected yet" /\ asks[a].reply = "none" => Unconnected(a)

\* "The gateway needs to translate these into user-facing Slack messages ("try again" vs
\* "missing creds, enroll")." (vault-client.ts:9): who is told that nothing is connected
\* had nothing connected.  No run states it, because it is not so: the status command reads
\* a vault that cannot be asked as an empty list.
StatusTrue ==
    \A a \in Ask : asks[a].stage = "told" /\ asks[a].told = "nothing connected yet" => Unconnected(a)
==============================================================================
