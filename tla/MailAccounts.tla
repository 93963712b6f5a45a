---------------------------- MODULE MailAccounts ----------------------------
(***************************************************************************)
(* The row of one person in authd.accounts, as the API keeps it in step    *)
(* with Clerk (apps/api/src/projection).                                   *)
(*                                                                         *)
(* Each change of the person's Clerk record is a version, numbered by      *)
(* Clerk's updated_at, and sends a webhook carrying it.  Svix delivers the *)
(* webhooks at least once and in any order.  The event id is claimed in    *)
(* the transaction that writes the row, so a second delivery of an event   *)
(* changes nothing, and a failed first one leaves no claim.                *)
(***************************************************************************)
EXTENDS Integers, Sequences

CONSTANTS
    Passwords,
    NoAccount,
    MaxVersions,    \* BOUND: changes of the Clerk record
    MaxRaises       \* BOUND: revocations

VARIABLES
    clerk,          \* Clerk's record, version by version
    undelivered,    \* versions whose webhook has not been applied
    row,            \* authd.accounts
    raises          \* history: how often the epoch was raised

accountVars == <<clerk, undelivered, row, raises>>

\* since: the tick the version came to be.  hosted: the person has a verified
\* address in a domain i10 hosts.
Versions == [pw : Passwords, hosted : BOOLEAN, since : Nat]
Accounts == [at : Nat, epoch : Nat, active : BOOLEAN]

ASSUME AccountsAssumption == NoAccount \notin Accounts

AccountsTypeOK ==
    /\ clerk \in Seq(Versions)
    /\ undelivered \subseteq DOMAIN clerk
    /\ row \in Accounts \cup {NoAccount}
    /\ raises \in Nat

\* The person has a mailbox that is projected and paid for.
AccountsInit ==
    /\ \E p \in Passwords : clerk = <<[pw |-> p, hosted |-> TRUE, since |-> 0]>>
    /\ undelivered = {}
    /\ row = [at |-> 1, epoch |-> 0, active |-> TRUE]
    /\ raises = 0

Latest == clerk[Len(clerk)]

\* The person changes the password, or gains or gives up their last hosted address.
ClerkChanges(tick) ==
    /\ Len(clerk) < MaxVersions
    /\ \E p \in Passwords, h \in BOOLEAN :
         /\ (p # Latest.pw) # (h # Latest.hosted)
         /\ clerk' = Append(clerk, [pw |-> p, hosted |-> h, since |-> tick])
    /\ undelivered' = undelivered \cup {Len(clerk')}
    /\ UNCHANGED <<row, raises>>

\* A bug: the upsert without its guard.
UpsertedUnguarded(v) ==
    IF row = NoAccount
      THEN [at |-> v, epoch |-> 0, active |-> FALSE]
      ELSE [row EXCEPT !.at = v]

\* A new row is inactive; an existing one takes what is not older than it is.
Upserted(v) ==
    CASE row = NoAccount -> [at |-> v, epoch |-> 0, active |-> FALSE]
      [] row # NoAccount /\ v >= row.at -> [row EXCEPT !.at = v]
      [] OTHER -> row

\* applyClerkEvent: the removal has no guard on age.
Deliver(v) ==
    /\ v \in undelivered
    /\ undelivered' = undelivered \ {v}
    /\ row' = IF clerk[v].hosted THEN Upserted(v) ELSE NoAccount
    /\ UNCHANGED <<clerk, raises>>

\* Provisioning a mailbox is what makes its account active.
Activate ==
    /\ row # NoAccount /\ ~row.active
    /\ row' = [row EXCEPT !.active = TRUE]
    /\ UNCHANGED <<clerk, undelivered, raises>>

\* raiseCredentialEpoch: a revocation that leaves the row active.
RaiseCredentialEpoch ==
    /\ row # NoAccount /\ raises < MaxRaises
    /\ row' = [row EXCEPT !.epoch = @ + 1]
    /\ raises' = raises + 1
    /\ UNCHANGED <<clerk, undelivered>>

-----------------------------------------------------------------------------
AllHosted == \A v \in DOMAIN clerk : clerk[v].hosted

\* Once every webhook is in, the row is the newest version of the record, in
\* whatever order they came, as long as no version took the row away.
RowIsNewest ==
    undelivered = {} /\ AllHosted =>
        /\ row # NoAccount
        /\ row.at = Len(clerk)

\* What writer.ts:210 says without that condition: a delayed older event does
\* not overwrite newer state.
RowFollowsClerk ==
    undelivered = {} =>
        IF Latest.hosted
          THEN row # NoAccount /\ row.at = Len(clerk)
          ELSE row = NoAccount
=============================================================================
