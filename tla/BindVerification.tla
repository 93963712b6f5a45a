-------------------------- MODULE BindVerification --------------------------
(***************************************************************************)
(* authd answers the LDAP binds of one person's mail clients.              *)
(*                                                                         *)
(*   row -> cache -> flight -> remembered refusals -> throttle -> budget   *)
(*       -> provider -> release or keep -> cache                           *)
(*                                                                         *)
(* Every pod has its own cache, refusals, throttle and flights, in memory; *)
(* the row (MailAccounts) and the failure budget (FailureBudget) are in    *)
(* the database.  The verification of a password runs detached from the    *)
(* bind that started it, and answers every bind that joined it.            *)
(*                                                                         *)
(* Ticks are coarse: an operation is bounded by 14 seconds, a window and a *)
(* cached password last many minutes, so whatever began in a tick is over  *)
(* before the next but one.                                                *)
(***************************************************************************)
EXTENDS FailureBudget, MailAccounts

CONSTANTS
    Pods,
    Ttl,            \* CredCacheTTL, in ticks
    PerUser,        \* perUserRejections
    Burst,          \* tokens of a full bucket
    Refill,         \* tokens of a tick
    Nothing,        \* no cache entry, no remembered refusal
    MaxClock,       \* BOUND: the last tick
    MaxFaults       \* BOUND: failed calls, lost answers, panics and kills

ASSUME BindAssumption ==
    /\ Pods # {}
    /\ PerUser \in Nat \ {0}
    /\ {Ttl, Burst, Refill, MaxFaults} \subseteq Nat

Binds == Callers

VARIABLES
    budgeted,   \* whether the person's provider has a failure budget
    cache,      \* each pod's entry for the person
    refused,    \* each pod's remembered refusals of the person
    tokens,     \* each pod's bucket for the person's DN
    bind,       \* the binds
    flight,     \* where the verification is that a bind started
    faults      \* history: what went wrong so far

podVars == <<cache, refused, tokens>>
vars == <<budgetVars, accountVars, podVars, budgeted, bind, flight, faults>>

\* What credcache.Subject holds of the row that was read.
Subjects == [at : Nat, epoch : Nat]

\* read, here and in a bind: history, how often the epoch had been raised when
\* the row was read.
Entries == [pw : Passwords, sub : Subjects, expires : Nat, read : Nat]

\* age: how many refusals were remembered after this one.
Refusals == [pw : Passwords, expires : Nat, age : Nat]

Replies == {"success", "invalid", "busy", "unavailable", "dropped"}
Pending == {"read", "missed", "waiting"}

\* silent: the provider did not answer.  unheard: it refused the password, and
\* its answer was lost.
Stages == {"none", "begun", "reserving", "verifying",
           "verified", "rejected", "silent", "unheard"}

BindStates ==
    [phase : {"new"} \cup Pending \cup Replies, pod : Pods, pw : Passwords,
     sub : Subjects, read : Nat, since : Nat, leader : Binds \cup {Nothing}]

TypeOK ==
    /\ BudgetTypeOK /\ AccountsTypeOK
    /\ budgeted \in BOOLEAN
    /\ cache \in [Pods -> Entries \cup {Nothing}]
    /\ refused \in [Pods -> [sub : Subjects, macs : SUBSET Refusals] \cup {Nothing}]
    /\ \A p \in Pods : refused[p] # Nothing => Cardinality(refused[p].macs) \in 1..PerUser
    /\ tokens \in [Pods -> 0..Burst]
    /\ bind \in [Binds -> BindStates]
    /\ \A b \in Binds : bind[b].phase = "waiting" => bind[b].leader \in Binds
    /\ flight \in [Binds -> Stages]
    /\ faults \in 0..MaxFaults

\* A bind that is over needs no memory of what it was.
Idle(phase) == [phase |-> phase, pod |-> CHOOSE p \in Pods : TRUE,
                pw |-> CHOOSE w \in Passwords : TRUE,
                sub |-> [at |-> 0, epoch |-> 0], read |-> 0, since |-> 0,
                leader |-> Nothing]

Init ==
    /\ BudgetInit /\ AccountsInit
    /\ budgeted \in BOOLEAN
    /\ cache = [p \in Pods |-> Nothing]
    /\ refused = [p \in Pods |-> Nothing]
    /\ tokens = [p \in Pods |-> Burst]
    /\ bind = [b \in Binds |-> Idle("new")]
    /\ flight = [b \in Binds |-> "none"]
    /\ faults = 0

Fault == faults < MaxFaults /\ faults' = faults + 1

-----------------------------------------------------------------------------
(* The handler of one bind.                                                *)

Projected == IF row = NoAccount THEN FALSE ELSE row.active

\* The account row is read.  No active row is a refusal; a failed read is not.
ReadRow(b, p, w) ==
    /\ bind[b].phase = "new"
    /\ \/ /\ ~Projected
          /\ bind' = [bind EXCEPT ![b] = Idle("invalid")]
          /\ UNCHANGED faults
       \/ /\ Projected
          /\ bind' = [bind EXCEPT ![b] =
                        [phase |-> "read", pod |-> p, pw |-> w, leader |-> Nothing,
                         sub |-> [at |-> row.at, epoch |-> row.epoch],
                         read |-> raises, since |-> now]]
          /\ UNCHANGED faults
       \/ /\ Fault
          /\ bind' = [bind EXCEPT ![b] = Idle("unavailable")]
    /\ UNCHANGED <<budgetVars, accountVars, podVars, budgeted, flight>>

\* A bug: an entry is good whatever became of the row since.
UsableWhateverTheRow(e, s) == e # Nothing /\ now < e.expires

\* A bug: only Clerk's timestamp is compared.
UsableWhateverTheEpoch(e, s) == e # Nothing /\ now < e.expires /\ e.sub.at = s.at

\* Neither expired nor minted under another state of the row.
Usable(e, s) == e # Nothing /\ now < e.expires /\ e.sub = s

\* credCache.Lookup: what cannot be used is dropped.
Lookup(b) ==
    LET p == bind[b].pod
        e == cache[p]
        usable == Usable(e, bind[b].sub)
    IN
    /\ bind[b].phase = "read"
    /\ cache' = [cache EXCEPT ![p] = IF usable THEN e ELSE Nothing]
    /\ bind' = IF usable /\ e.pw = bind[b].pw
                 THEN [bind EXCEPT ![b] = Idle("success")]
                 ELSE [bind EXCEPT ![b].phase = "missed"]
    /\ UNCHANGED <<budgetVars, accountVars, refused, tokens, budgeted, flight, faults>>

Running(f) == flight[f] # "none"

\* A bug: every bind flies alone.
SameKeyNever(f, b) == FALSE

SameKey(f, b) ==
    /\ bind[f].pod = bind[b].pod
    /\ bind[f].pw = bind[b].pw
    /\ bind[f].sub = bind[b].sub

\* flights.Do: join the verification in flight, or start one.
Join(b) ==
    /\ bind[b].phase = "missed"
    /\ \/ \E f \in Binds :
            /\ Running(f) /\ SameKey(f, b)
            /\ bind' = [bind EXCEPT ![b].phase = "waiting", ![b].leader = f]
            /\ UNCHANGED flight
       \/ /\ \A f \in Binds : ~(Running(f) /\ SameKey(f, b))
          /\ bind' = [bind EXCEPT ![b].phase = "waiting", ![b].leader = b]
          /\ flight' = [flight EXCEPT ![b] = "begun"]
    /\ UNCHANGED <<budgetVars, accountVars, podVars, budgeted, faults>>

\* The operation's deadline passes first: the bind leaves, the flight goes on.
Deadline(b) ==
    /\ bind[b].phase = "waiting"
    /\ bind' = [bind EXCEPT ![b] = IF Running(b)
                                     THEN [@ EXCEPT !.phase = "unavailable"]
                                     ELSE Idle("unavailable")]
    /\ UNCHANGED <<budgetVars, accountVars, podVars, budgeted, flight, faults>>

-----------------------------------------------------------------------------
(* The verification itself: verifyOnce, on a goroutine of its own.         *)

\* The flight ends: everyone still waiting has the answer.
Ends(f, reply) ==
    /\ flight' = [flight EXCEPT ![f] = "none"]
    /\ bind' = [b \in Binds |->
                  CASE bind[b].phase = "waiting" /\ bind[b].leader = f -> Idle(reply)
                    [] b = f /\ bind[b].phase # "waiting" -> Idle(bind[b].phase)
                    [] OTHER -> bind[b]]

\* The record of a pod without what has expired or belongs to another row.
Current(p, s) ==
    IF refused[p] = Nothing \/ refused[p].sub # s
      THEN {}
      ELSE {r \in refused[p].macs : now < r.expires}

Recorded(s, macs) == IF macs = {} THEN Nothing ELSE [sub |-> s, macs |-> macs]

Remembers(p, s, w) == \E r \in Current(p, s) : r.pw = w

\* A password this provider refused is not tried again; then the throttle.
Admit(f) ==
    LET p == bind[f].pod
        s == bind[f].sub
        seen == budgeted /\ Remembers(p, s, bind[f].pw)
    IN
    /\ flight[f] = "begun"
    /\ refused' = IF budgeted
                    THEN [refused EXCEPT ![p] = Recorded(s, Current(p, s))]
                    ELSE refused
    /\ \/ /\ seen
          /\ Ends(f, "invalid")
          /\ UNCHANGED tokens
       \/ /\ ~seen /\ tokens[p] = 0
          /\ Ends(f, "busy")
          /\ UNCHANGED tokens
       \/ /\ ~seen /\ tokens[p] > 0
          /\ tokens' = [tokens EXCEPT ![p] = @ - 1]
          /\ flight' = [flight EXCEPT ![f] = IF budgeted THEN "reserving" ELSE "verifying"]
          /\ UNCHANGED bind
    /\ UNCHANGED <<budgetVars, accountVars, cache, budgeted, faults>>

\* A slot before the password is forwarded; if the store cannot be asked, no.
TakeSlot(f) ==
    /\ flight[f] = "reserving"
    /\ \/ /\ Reserve(f)
          /\ flight' = [flight EXCEPT ![f] = "verifying"]
          /\ UNCHANGED <<bind, faults>>
       \/ /\ ~HasRoom
          /\ Ends(f, "busy")
          /\ UNCHANGED <<budgetVars, faults>>
       \/ /\ Fault
          /\ Ends(f, "unavailable")
          /\ ReserveUnheard(f) \/ UNCHANGED budgetVars
    /\ UNCHANGED <<accountVars, podVars, budgeted>>

\* The provider compares the password with the record as it is now.  Its answer
\* may not arrive, or not in time, whether or not it counted a failure.
Verify(f) ==
    LET right == bind[f].pw = Latest.pw IN
    /\ flight[f] = "verifying"
    /\ \/ /\ flight' = [flight EXCEPT ![f] = IF right THEN "verified" ELSE "rejected"]
          /\ UNCHANGED faults
       \/ /\ Fault
          /\ \E stage \in {"silent"} \cup (IF right THEN {} ELSE {"unheard"}) :
               flight' = [flight EXCEPT ![f] = stage]
    /\ UNCHANGED <<budgetVars, accountVars, podVars, budgeted, bind>>

\* The slot goes back, if there is one.  If that fails it stays spent.
GiveBack(f) ==
    \/ /\ budgeted /\ Release(f)
       /\ UNCHANGED faults
    \/ /\ ~budgeted
       /\ UNCHANGED <<budgetVars, faults>>
    \/ /\ budgeted /\ Fault
       /\ Lose({f})

\* Verified: release, remember the password under the row as it was read.
Succeed(f) ==
    /\ flight[f] = "verified"
    /\ GiveBack(f)
    /\ cache' = [cache EXCEPT ![bind[f].pod] =
                   [pw |-> bind[f].pw, sub |-> bind[f].sub,
                    expires |-> now + Ttl, read |-> bind[f].read]]
    /\ Ends(f, "success")
    /\ UNCHANGED <<accountVars, refused, tokens, budgeted>>

\* A password's own refusal lives on; another's is older by one.
Extended(macs, w) ==
    {IF r.pw = w THEN [r EXCEPT !.expires = now + Window] ELSE r : r \in macs}

Behind(macs, w) ==
    {[r EXCEPT !.age = @ + 1] : r \in macs}
      \cup {[pw |-> w, expires |-> now + Window, age |-> 0]}

\* A bug: the list of refusals grows without limit.
NotedAll(macs, w) ==
    IF \E r \in macs : r.pw = w THEN Extended(macs, w) ELSE Behind(macs, w)

\* All but the oldest.
Younger(macs) == {r \in macs : \E o \in macs : o.age > r.age}

\* Remember: refresh the password's place, or take one, the oldest giving way.
Noted(macs, w) ==
    CASE \E r \in macs : r.pw = w -> Extended(macs, w)
      [] OTHER -> Behind(IF Cardinality(macs) >= PerUser THEN Younger(macs) ELSE macs, w)

\* Rejected: the slot is kept, and a budgeted provider is not asked again.
Reject(f) ==
    LET p == bind[f].pod
        s == bind[f].sub
    IN
    /\ flight[f] = "rejected"
    /\ \/ /\ budgeted
          /\ Keep(f)
          /\ refused' = [refused EXCEPT ![p] = Recorded(s, Noted(Current(p, s), bind[f].pw))]
       \/ /\ ~budgeted
          /\ UNCHANGED <<budgetVars, refused>>
    /\ Ends(f, "invalid")
    /\ UNCHANGED <<accountVars, cache, tokens, budgeted, faults>>

\* A bug: a provider that did not answer is reported as a wrong password.
SilenceIsRefusal == "invalid"

\* No answer is not an answer about the password.
SilenceMeans == "unavailable"

Silent(f) ==
    /\ flight[f] \in {"silent", "unheard"}
    /\ GiveBack(f)
    /\ Ends(f, SilenceMeans)
    /\ UNCHANGED <<accountVars, podVars, budgeted>>

\* The work panics: its slot is spent, and nobody is left waiting.
Panic(f) ==
    /\ Running(f)
    /\ Fault
    /\ Lose({f})
    /\ Ends(f, "unavailable")
    /\ UNCHANGED <<accountVars, podVars, budgeted>>

\* A pod is killed and comes back with nothing in memory.
Restart(p) ==
    LET here == {b \in Binds : bind[b].pod = p} IN
    /\ Fault
    /\ Lose(here)
    /\ cache' = [cache EXCEPT ![p] = Nothing]
    /\ refused' = [refused EXCEPT ![p] = Nothing]
    /\ tokens' = [tokens EXCEPT ![p] = Burst]
    /\ flight' = [b \in Binds |-> IF b \in here THEN "none" ELSE flight[b]]
    /\ bind' = [b \in Binds |->
                  CASE b \in here /\ bind[b].phase \in Pending -> Idle("dropped")
                    [] b \in here /\ bind[b].phase \notin Pending -> Idle(bind[b].phase)
                    [] OTHER -> bind[b]]
    /\ UNCHANGED <<accountVars, budgeted>>

-----------------------------------------------------------------------------
Open(b) == bind[b].phase \in Pending \/ Running(b)

\* What began two ticks ago is over: its deadline has passed.
Tick ==
    /\ now < MaxClock
    /\ \A b \in Binds : Open(b) => bind[b].since = now
    /\ Advance
    /\ tokens' = [p \in Pods |-> IF tokens[p] + Refill > Burst THEN Burst
                                                              ELSE tokens[p] + Refill]
    /\ UNCHANGED <<accountVars, cache, refused, budgeted, bind, flight, faults>>

ClerkSide ==
    /\ \/ ClerkChanges(now)
       \/ \E v \in undelivered : Deliver(v)
       \/ Activate
       \/ RaiseCredentialEpoch
    /\ UNCHANGED <<budgetVars, podVars, budgeted, bind, flight, faults>>

Handler(b) ==
    \/ \E p \in Pods, w \in Passwords : ReadRow(b, p, w)
    \/ Lookup(b) \/ Join(b) \/ Deadline(b)

Verification(f) ==
    \/ Admit(f) \/ TakeSlot(f) \/ Verify(f)
    \/ Succeed(f) \/ Reject(f) \/ Silent(f) \/ Panic(f)

Next ==
    \/ \E b \in Binds : Handler(b) \/ Verification(b)
    \/ \E p \in Pods : Restart(p)
    \/ Tick
    \/ ClerkSide

Spec == Init /\ [][Next]_vars

-----------------------------------------------------------------------------
(* Properties.                                                             *)

\* A step that answers a bind.
Told(b, reply) == bind[b].phase # reply /\ bind'[b].phase = reply

\* Versions of the Clerk record that stood at some time since the tick.
StoodSince(tick) ==
    {v \in DOMAIN clerk : v = Len(clerk) \/ clerk[v + 1].since >= tick}

\* A bind that read version n of the row succeeds only with a password Clerk
\* held in version n or later, and held no longer ago than a cached entry lives:
\* a retired password stops working once the row says so, and with the TTL at
\* the latest.
SuccessIsCurrent ==
    [][\A b \in Binds : Told(b, "success") =>
         \E v \in DOMAIN clerk :
            /\ v >= bind[b].sub.at
            /\ clerk[v].pw = bind[b].pw
            /\ v \in StoodSince(now - Ttl - 1)]_vars

\* "Invalid credentials" is said of a person without an active row, and of a
\* password some version since the one the row was read at did not have: an
\* outage, a timeout, a spent budget or an old refusal never says it.
InvalidIsTrue ==
    [][\A b \in Binds : Told(b, "invalid") =>
         \/ bind[b].phase = "new" /\ ~Projected
         \/ \E v \in DOMAIN clerk : v >= bind[b].sub.at /\ clerk[v].pw # bind[b].pw]_vars

\* The row reading behind the verification that answers b.
AnsweredFrom(b) ==
    IF bind[b].phase = "read" THEN cache[bind[b].pod].read
                              ELSE bind[bind[b].leader].read

\* A bind that began after a revocation is not answered from a verification that
\* began before it.
RevocationHolds ==
    [][\A b \in Binds : Told(b, "success") => AnsweredFrom(b) >= bind[b].read]_vars

\* What a pod remembers as refused is not on its way to the provider: one flight
\* per key, and the memory is written before the flight's key is free again.
NoIdenticalForward ==
    \A f \in Binds :
        budgeted /\ flight[f] \in {"reserving", "verifying"} =>
            ~Remembers(bind[f].pod, bind[f].sub, bind[f].pw)
=============================================================================
