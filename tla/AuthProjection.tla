---------------------------- MODULE AuthProjection ----------------------------
(***************************************************************************)
(* Credentials of the model's homes (john_lomein_auth_projection.py): one  *)
(* authority home keeps the login, sync projects its access token into the *)
(* runtime home and its profiles, scrub takes it out again, recover        *)
(* promotes a newer login found in a profile.                              *)
(*                                                                         *)
(* A store is an auth.json: the provider's login, the projected row and    *)
(* the updates of other providers. Whoever changes one, Hermes included,   *)
(* holds its auth.lock from the reading to the rename, so each such        *)
(* section is one step; between two sections anything may happen.          *)
(***************************************************************************)
EXTENDS Integers

CONSTANTS
  Homes,        \* how many: the runtime home is 1, its profiles follow
  Accounts, Owner, Nothing,
  Horizon,      \* refresh_horizon_seconds
  Life,         \* of an access token
  MaxTime, MaxIssued, MaxJobs, MaxOthers

AuthConstants ==
  /\ {Homes, Horizon, Life, MaxTime, MaxIssued, MaxJobs, MaxOthers} \subseteq Nat
  /\ Homes > 0 /\ Horizon < Life /\ Owner \in Accounts /\ Nothing \notin Accounts

Authority == 0
Stores == 0 .. Homes
Jobs == 1 .. MaxJobs

VARIABLES
  clock,
  stores,    \* every auth.json
  others,    \* the updates other providers made to each
  issued,    \* tokens issued so far
  spent,     \* logins whose refresh token was used
  jobs

authVars == <<clock, stores, others, issued, spent, jobs>>

NoStore == [login |-> Nothing, row |-> Nothing, others |-> 0]
NoJob == [pc |-> "off", command |-> "none", next |-> 1, read |-> <<>>, token |-> Nothing,
          alone |-> TRUE]

AuthInit ==
  /\ clock = 0 /\ issued = 2 /\ spent = {}
  /\ \E a \in Accounts, l \in {"none", "copy", "own"} :
       LET first == [account |-> Owner, number |-> 1, at |-> 0]
           second == [account |-> a, number |-> 2, at |-> 0] IN
       stores = [s \in Stores |->
         IF s = Authority THEN [NoStore EXCEPT !.login = first]
         ELSE IF s = Homes /\ l = "copy" THEN [NoStore EXCEPT !.login = first]
         ELSE IF s = Homes /\ l = "own" THEN [NoStore EXCEPT !.login = second]
         ELSE NoStore]
  /\ others = [s \in Stores |-> 0]
  /\ jobs = [j \in Jobs |-> NoJob]

\* _valid_access_token
Valid(token, horizon) == clock + horizon < token.at + Life

\* _verify_store
Projected(s, horizon) == s.login = Nothing /\ s.row # Nothing /\ Valid(s.row, horizon)

\* _projection_payload: the provider's own state is replaced by one row.
Payload(s, token) == [s EXCEPT !.login = Nothing, !.row = token]

\* _scrubbed_store
Scrubbed(s) == [s EXCEPT !.login = Nothing, !.row = Nothing]

Over(pc) == pc \in {"ok", "current", "failed"}
Working(j) == jobs[j].pc # "off" /\ ~ Over(jobs[j].pc)

\* A job that is over forgets what it read.
To(job, pc) ==
  IF Over(pc) THEN [job EXCEPT !.pc = pc, !.next = 1, !.read = <<>>, !.token = Nothing]
  ELSE [job EXCEPT !.pc = pc]
Step(j, pc) == jobs' = [jobs EXCEPT ![j] = To(@, pc)]

\* A job goes on with the next home, or ends.
Onward(j, last) ==
  IF jobs[j].next = Homes THEN jobs' = [jobs EXCEPT ![j] = To([@ EXCEPT !.next = 1], last)]
  ELSE jobs' = [jobs EXCEPT ![j].next = @ + 1]

\* Every command starts with the checks of its homes; a job that overlaps
\* another is no longer alone.
Start(j, command) ==
  /\ jobs[j].pc = "off" /\ \A k \in 1 .. j - 1 : jobs[k].pc # "off"
  /\ jobs' = [k \in Jobs |->
       IF k = j THEN [NoJob EXCEPT !.pc = command, !.command = command,
                                   !.alone = \A i \in Jobs : ~ Working(i)]
       ELSE [jobs[k] EXCEPT !.alone = FALSE]]
  /\ UNCHANGED <<clock, stores, others, issued, spent>>

\* A lock that is not to be had, an unsafe or unreadable store, a refused
\* refresh or a kill: what was written so far stays.
Fail(j) ==
  /\ Working(j)
  /\ Step(j, "failed")
  /\ UNCHANGED <<clock, stores, others, issued, spent>>

-----------------------------------------------------------------------------
(* sync_projection *)

\* The loop that reads every destination, and the common path.
ReadHome(j) ==
  LET h == jobs[j].next
      read == [i \in 1 .. h |-> IF i = h THEN stores[h] ELSE jobs[j].read[i]]
      current == /\ \A i \in 1 .. h : Projected(read[i], Horizon)
                 /\ \A i, k \in 1 .. h : read[i].row = read[k].row IN
  /\ jobs[j].pc = "sync"
  /\ IF h < Homes
     THEN jobs' = [jobs EXCEPT ![j].read = read, ![j].next = @ + 1]
     ELSE jobs' = [jobs EXCEPT ![j] = To([@ EXCEPT !.read = read, !.next = 1],
                                         IF current THEN "current" ELSE "authority")]
  /\ UNCHANGED <<clock, stores, others, issued, spent>>

\* The first half of _authority_access_token: _provider_state, _matching_pool_row.
CheckAuthority(j) ==
  /\ jobs[j].pc = "authority"
  /\ Step(j, IF stores[Authority].login = Nothing THEN "failed" ELSE "refresh")
  /\ UNCHANGED <<clock, stores, others, issued, spent>>

\* A refresh token is good for one refresh, also where a copy of it is kept.
Refreshed(s) ==
  /\ issued < MaxIssued /\ stores[s].login.number \notin spent
  /\ issued' = issued + 1
  /\ spent' = spent \cup {stores[s].login.number}
  /\ stores' = [stores EXCEPT ![s].login = [@ EXCEPT !.number = issued + 1, !.at = clock]]

\* _hermes_refresh_in_process, in the worker of _run_hermes_refresh.
RefreshAuthority(j) ==
  /\ jobs[j].pc = "refresh"
  /\ IF Valid(stores[Authority].login, Horizon)
     THEN Step(j, "token") /\ UNCHANGED <<stores, issued, spent>>
     ELSE IF stores[Authority].login.number \in spent
     THEN Step(j, "failed") /\ UNCHANGED <<stores, issued, spent>>
     ELSE Step(j, "token") /\ Refreshed(Authority)
  /\ UNCHANGED <<clock, others>>

\* The second half of _authority_access_token.
ReadToken(j) ==
  /\ jobs[j].pc = "token"
  /\ IF stores[Authority].login # Nothing /\ Valid(stores[Authority].login, Horizon)
     THEN jobs' = [jobs EXCEPT ![j].pc = "write", ![j].token = stores[Authority].login]
     ELSE Step(j, "failed")
  /\ UNCHANGED <<clock, stores, others, issued, spent>>

\* Mutant: the payload of the first reading is written.
WriteHomeStale(j) ==
  /\ jobs[j].pc = "write"
  /\ stores' = [stores EXCEPT ![jobs[j].next] = Payload(jobs[j].read[jobs[j].next], jobs[j].token)]
  /\ Onward(j, "ok")
  /\ UNCHANGED <<clock, others, issued, spent>>

\* "Re-read after refresh so concurrent safe non-OpenAI updates are merged
\* instead of overwritten."
WriteHome(j) ==
  /\ jobs[j].pc = "write"
  /\ stores' = [stores EXCEPT ![jobs[j].next] = Payload(@, jobs[j].token)]
  /\ Onward(j, "ok")
  /\ UNCHANGED <<clock, others, issued, spent>>

-----------------------------------------------------------------------------
(* The other commands *)

\* verify_projection: every home, and one token.
VerifyHome(j) ==
  LET h == jobs[j].next  s == stores[h] IN
  /\ jobs[j].pc = "verify"
  /\ IF Projected(s, 0) /\ jobs[j].token \in {Nothing, s.row}
     THEN IF h = Homes THEN Step(j, "ok")
          ELSE jobs' = [jobs EXCEPT ![j].token = s.row, ![j].next = @ + 1]
     ELSE Step(j, "failed")
  /\ UNCHANGED <<clock, stores, others, issued, spent>>

\* scrub_model_credentials
ScrubHome(j) ==
  /\ jobs[j].pc = "scrub"
  /\ stores' = [stores EXCEPT ![jobs[j].next] = Scrubbed(@)]
  /\ Onward(j, "ok")
  /\ UNCHANGED <<clock, others, issued, spent>>

\* verify_model_credentials_scrubbed
VerifyScrubbed(j) ==
  /\ jobs[j].pc = "verify_scrubbed"
  /\ IF stores[jobs[j].next] = Scrubbed(stores[jobs[j].next])
     THEN Onward(j, "ok")
     ELSE Step(j, "failed")
  /\ UNCHANGED <<clock, stores, others, issued, spent>>

\* Mutant: any login of the account is promoted.
NewerOfAccount(source, current) ==
  Valid(source, 0) /\ source.account = current.account

\* The conditions of recover_authority: a valid login of the same account that
\* was refreshed later.
Newer(source, current) ==
  /\ Valid(source, 0)
  /\ source.account = current.account
  /\ source.at > current.at

\* recover_authority, under both locks.
Recover(j) ==
  /\ jobs[j].pc = "recover"
  /\ \E h \in 2 .. Homes :
       LET source == stores[h].login  current == stores[Authority].login IN
       IF source # Nothing /\ current # Nothing /\ Newer(source, current)
       THEN stores' = [stores EXCEPT ![Authority].login = source] /\ Step(j, "ok")
       ELSE UNCHANGED stores /\ Step(j, "failed")
  /\ UNCHANGED <<clock, others, issued, spent>>

-----------------------------------------------------------------------------
(* The rest of the world *)

Tick == clock < MaxTime /\ clock' = clock + 1 /\ UNCHANGED <<stores, others, issued, spent, jobs>>

\* External: another provider updates a store, under its lock.
OtherUpdate(s) ==
  /\ others[s] < MaxOthers /\ \A t \in Stores \ {s} : others[t] = 0
  /\ others' = [others EXCEPT ![s] = @ + 1]
  /\ stores' = [stores EXCEPT ![s].others = @ + 1]
  /\ UNCHANGED <<clock, issued, spent, jobs>>

\* External: Hermes refreshes the login of a store, or its owner logs in again
\* at the authority.
HermesRefresh(s) ==
  /\ stores[s].login # Nothing
  /\ Refreshed(s)
  /\ UNCHANGED <<clock, others, jobs>>
LogIn(a) ==
  /\ issued < MaxIssued
  /\ issued' = issued + 1
  /\ stores' = [stores EXCEPT ![Authority].login = [account |-> a, number |-> issued + 1, at |-> clock]]
  /\ UNCHANGED <<clock, others, spent, jobs>>

AuthNext ==
  \/ \E j \in Jobs :
       \/ \E c \in {"sync", "verify", "scrub", "verify_scrubbed", "recover"} : Start(j, c)
       \/ Fail(j) \/ ReadHome(j) \/ CheckAuthority(j) \/ RefreshAuthority(j) \/ ReadToken(j)
       \/ WriteHome(j) \/ VerifyHome(j) \/ ScrubHome(j) \/ VerifyScrubbed(j) \/ Recover(j)
  \/ Tick
  \/ \E s \in Stores : OtherUpdate(s) \/ HermesRefresh(s)
  \/ \E a \in Accounts : LogIn(a)

AuthSpec == AuthInit /\ [][AuthNext]_authVars

-----------------------------------------------------------------------------
(* Properties *)

\* A job works on a home that is there, and a row never outnumbers the tokens issued.
AuthTypeOK ==
  /\ \A j \in Jobs : jobs[j].next \in 1 .. Homes
  /\ \A s \in Stores : \A x \in {stores[s].login, stores[s].row} : x = Nothing \/ x.number <= issued

\* No command loses what another provider wrote to a store, although a sync
\* read the store long before it writes it.
OthersKept == \A s \in Stores : stores[s].others = others[s]

\* A sync, a scrub or a verification that no other command overlapped leaves
\* all homes the way it says: one and the same row and no login, or nothing,
\* whatever Hermes refreshed meanwhile.
AnswersTrue ==
  \A j \in Jobs : jobs[j].alone =>
    /\ jobs[j].command \in {"sync", "verify"} /\ jobs[j].pc \in {"ok", "current"} =>
         \A g, h \in 1 .. Homes : stores[h].login = Nothing /\ stores[g].row = stores[h].row
    /\ jobs[j].command \in {"scrub", "verify_scrubbed"} /\ jobs[j].pc = "ok" =>
         \A h \in 1 .. Homes : stores[h] = Scrubbed(stores[h])

\* What the commands promise, all together.
AuthSafe == AuthTypeOK /\ OthersKept /\ AnswersTrue

\* The authority never goes back to a login it had left, whichever refreshes
\* and logins fell between the promotion's steps (recover_authority).
AuthorityForwardStep ==
  stores'[Authority].login.number >= stores[Authority].login.number

=============================================================================
