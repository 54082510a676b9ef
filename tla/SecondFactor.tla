---------------------------- MODULE SecondFactor ----------------------------
(***************************************************************************)
(* Logins with a second factor: tickets (src/api2/access.rs,               *)
(* src/server/ticket.rs, src/tools/ticket.rs), the file tfa.json under its *)
(* lock and the file of challenges of a user (src/config/tfa.rs), and the  *)
(* handlers that manage the factors (src/api2/access/tfa.rs).              *)
(*                                                                         *)
(* One user.  A request reads tfa.json, and writes what it made of it in a *)
(* later step; only the lock keeps others from doing so in between.        *)
(***************************************************************************)
EXTENDS Naturals, FiniteSets, FiniteSetsExt

CONSTANTS RecoveryKeys,  \* a set of recovery keys, ten in the code
          Challenges,    \* 1 .. n: challenges that are ever made
          Logins,        \* requests under way at the same time
          MayTimeOut,    \* requests whose write_lock() may time out
          MaxTfaRequests

ASSUME FactorAssumption ==
  /\ Challenges = 1 .. Cardinality(Challenges)
  /\ RecoveryKeys \subseteq Nat \ ({0} \cup Challenges)
  /\ IsFiniteSet(Challenges) /\ 0 \notin Logins

VARIABLES
  tfa,        \* tfa.json: [totp, u2f, webauthn: "none", "on" or "off", recovery: unused keys]
  tfaLock,    \* the request that holds the lock, or 0
  pending,    \* the file of challenges: <<kind, challenge>>
  made,       \* challenges made so far
  tickets,    \* signed challenges that clients hold
  login,      \* the requests
  begun,
  accepted    \* of a recovery key or a webauthn challenge: successful logins with it

tfaVars == <<tfa, tfaLock, pending, made, tickets, login, begun, accepted>>

Factors == {"totp", "u2f", "webauthn"}
NoFactors == [f \in Factors \cup {"recovery"} |-> IF f = "recovery" THEN {} ELSE "none"]
HasNoFactor(data) == data = NoFactors
NoLogin == [pc |-> "idle", op |-> "", arg |-> "", key |-> 0, locked |-> FALSE, data |-> NoFactors]

(* A user with a recovery set and perhaps a webauthn key.                  *)
TfaInit ==
  /\ tfa \in {[NoFactors EXCEPT !.recovery = RecoveryKeys, !.webauthn = w] : w \in {"none", "on"}}
  /\ tfaLock = 0 /\ pending = {} /\ made = 0 /\ tickets = {}
  /\ login = [r \in Logins |-> NoLogin] /\ begun = 0
  /\ accepted = [x \in RecoveryKeys \cup Challenges |-> 0]
-----------------------------------------------------------------------------
Idle(r) ==
  login[r].pc = "idle" /\ begun < MaxTfaRequests /\ \A q \in Logins : q < r => login[q].pc # "idle"
StartLogin(r, op, arg, key) ==
  /\ Idle(r) /\ begun' = begun + 1
  /\ login' = [login EXCEPT ![r] = [NoLogin EXCEPT !.pc = "lock", !.op = op, !.arg = arg, !.key = key]]
  /\ UNCHANGED <<tfa, tfaLock, pending, made, tickets, accepted>>

(* authenticate_user, the password is right.                               *)
AuthenticateUser(r) == StartLogin(r, "challenge", "", 0)

(* authenticate_2nd: a ticket that has been signed for this user, and the  *)
(* client's response.                                                      *)
Authenticate2nd(r, t) ==
  \/ t.totp /\ StartLogin(r, "verify", "totp", 0)
  \/ t.u2f # 0 /\ StartLogin(r, "verify", "u2f", t.u2f)
  \/ t.webauthn # 0 /\ StartLogin(r, "verify", "webauthn", t.webauthn)
  \/ \E k \in RecoveryKeys : StartLogin(r, "verify", "recovery", k)

(* tfa_update_auth has checked the password; add_tfa_entry, by type.       *)
AddTotp(r) == StartLogin(r, "add", "totp", 0)
AddRecovery(r) == StartLogin(r, "add", "recovery", 0)
AddRegistration(r, f) == StartLogin(r, "register", f, 0)
FinishRegistration(r, f, c) == <<f, c>> \in pending /\ StartLogin(r, "finish", f, c)
UpdateTfaEntry(r, f) == StartLogin(r, "toggle", f, 0)
DeleteTfa(r, f) == StartLogin(r, "delete", f, 0)
DeleteUserTfa(r) == StartLogin(r, "delete_user", "", 0)
-----------------------------------------------------------------------------
(* write_lock() waits.  Mutant: it does not.                               *)
WriteLock_Free(r) == TRUE
WriteLock(r) == tfaLock = 0

LockTfa(r) ==
  /\ login[r].pc = "lock" /\ WriteLock(r)
  /\ tfaLock' = r
  /\ login' = [login EXCEPT ![r].pc = "read", ![r].locked = TRUE]
  /\ UNCHANGED <<tfa, pending, made, tickets, begun, accepted>>

(* After five seconds it fails: login_challenge, update_tfa_entry,         *)
(* delete_tfa and delete_user return the error, the others go on.          *)
LockTimeout(r) ==
  /\ login[r].op \in MayTimeOut /\ login[r].pc = "lock" /\ tfaLock # 0
  /\ login' = [login EXCEPT ![r] = IF @.op \in {"challenge", "toggle", "delete", "delete_user"}
                                   THEN NoLogin ELSE [@ EXCEPT !.pc = "read"]]
  /\ UNCHANGED <<tfa, tfaLock, pending, made, tickets, begun, accepted>>

ReadTfa(r) ==
  /\ login[r].pc = "read"
  /\ login' = [login EXCEPT ![r].pc = "act", ![r].data = tfa]
  /\ UNCHANGED <<tfa, tfaLock, pending, made, tickets, begun, accepted>>

Release(r) == tfaLock' = IF login[r].locked THEN 0 ELSE tfaLock
EndLogin(r) == Release(r) /\ login' = [login EXCEPT ![r] = NoLogin]
FailLogin(r) == EndLogin(r) /\ UNCHANGED <<tfa, pending, made, tickets, begun, accepted>>
ToWrite(r, data) == login' = [login EXCEPT ![r].pc = "write", ![r].data = data] /\ UNCHANGED tfaLock
Acting(r, op) == login[r].pc = "act" /\ login[r].op = op

(* TfaConfig::login_challenge: without factors a full ticket is made, else *)
(* a challenge for each factor that is enabled; webauthn challenges are    *)
(* kept in the file.                                                       *)
MakeChallenge(r) ==
  /\ Acting(r, "challenge")
  /\ LET data == login[r].data
         c == made + 1
         wa == data.webauthn = "on"
         u2 == data.u2f = "on"
     IN  IF HasNoFactor(data) \/ ((wa \/ u2) /\ c \notin Challenges) THEN FailLogin(r)
         ELSE /\ made' = IF wa \/ u2 THEN c ELSE made
              /\ pending' = IF wa THEN pending \cup {<<"auth", c>>} ELSE pending
              /\ tickets' = tickets \cup {[totp |-> data.totp = "on", u2f |-> IF u2 THEN c ELSE 0,
                                           webauthn |-> IF wa THEN c ELSE 0]}
              /\ ToWrite(r, data)
              /\ UNCHANGED <<tfa, begun, accepted>>

Accept(r, data, x) ==
  /\ accepted' = IF x \in DOMAIN accepted THEN [accepted EXCEPT ![x] = @ + 1] ELSE accepted
  /\ ToWrite(r, data)

(* TfaConfig::verify: a totp code or an u2f answer is checked only, a      *)
(* webauthn challenge is removed from its file first, a recovery key is    *)
(* struck off the list.                                                    *)
VerifyTotpOrU2f(r) ==
  /\ Acting(r, "verify") /\ login[r].arg \in {"totp", "u2f"}
  /\ login[r].data[login[r].arg] = "on"
  /\ Accept(r, login[r].data, 0)
  /\ UNCHANGED <<tfa, pending, made, tickets, begun>>
VerifyWebauthn(r) ==
  /\ Acting(r, "verify") /\ login[r].arg = "webauthn"
  /\ <<"auth", login[r].key>> \in pending
  /\ pending' = pending \ {<<"auth", login[r].key>>}
  /\ Accept(r, login[r].data, login[r].key)
  /\ UNCHANGED <<tfa, made, tickets, begun>>
VerifyRecovery(r) ==
  /\ Acting(r, "verify") /\ login[r].arg = "recovery"
  /\ login[r].key \in login[r].data.recovery
  /\ Accept(r, [login[r].data EXCEPT !.recovery = @ \ {login[r].key}], login[r].key)
  /\ UNCHANGED <<tfa, pending, made, tickets, begun>>
VerifyFails(r) == Acting(r, "verify") /\ FailLogin(r)

(* A registration leaves a challenge, the answer turns it into a factor.   *)
RegistrationChallenge(r) ==
  /\ Acting(r, "register") /\ made + 1 \in Challenges
  /\ made' = made + 1 /\ pending' = pending \cup {<<login[r].arg, made + 1>>}
  /\ ToWrite(r, login[r].data) /\ UNCHANGED <<tfa, tickets, begun, accepted>>
RegistrationFinish(r) ==
  /\ Acting(r, "finish") /\ <<login[r].arg, login[r].key>> \in pending
  /\ pending' = pending \ {<<login[r].arg, login[r].key>>}
  /\ ToWrite(r, [login[r].data EXCEPT ![login[r].arg] = "on"])
  /\ UNCHANGED <<tfa, made, tickets, begun, accepted>>

(* The others change the copy; keys that exist are not replaced.           *)
ChangedFactors(op, f, data) ==
  IF op = "delete_user" THEN NoFactors
  ELSE IF op = "add" /\ f = "recovery" THEN [data EXCEPT ![f] = RecoveryKeys]
  ELSE IF op = "add" THEN [data EXCEPT ![f] = "on"]
  ELSE IF op = "delete" THEN [data EXCEPT ![f] = NoFactors[f]]
  ELSE [data EXCEPT ![f] = IF @ = "on" THEN "off" ELSE "on"]
MayChange(op, f, data) ==
  \/ op = "delete_user" \/ (op = "add" /\ f = "totp")
  \/ op = "add" /\ f = "recovery" /\ data[f] = {}
  \/ op \in {"delete", "toggle"} /\ data[f] # NoFactors[f]
ChangeFactors(r) ==
  LET q == login[r]
  IN  /\ q.pc = "act" /\ q.op \in {"add", "delete", "toggle", "delete_user"}
      /\ MayChange(q.op, q.arg, q.data)
      /\ ToWrite(r, ChangedFactors(q.op, q.arg, q.data))
      /\ accepted' = IF q.op = "add" /\ q.arg = "recovery"   \* new keys
                     THEN [x \in DOMAIN accepted |-> IF x \in RecoveryKeys THEN 0 ELSE accepted[x]]
                     ELSE accepted
      /\ UNCHANGED <<tfa, pending, made, tickets, begun>>
ActFails(r) == login[r].pc = "act" /\ login[r].op \notin {"challenge", "verify"} /\ FailLogin(r)

WriteTfa(r) ==
  /\ login[r].pc = "write"
  /\ tfa' = login[r].data
  /\ EndLogin(r) /\ UNCHANGED <<pending, made, tickets, begun, accepted>>

(* Challenges are dropped after two minutes, tickets are good for ten.     *)
ExpireChallenge == \E c \in pending : pending' = pending \ {c}
                     /\ UNCHANGED <<tfa, tfaLock, made, tickets, login, begun, accepted>>
ExpireTicket == \E t \in tickets : tickets' = tickets \ {t}
                  /\ UNCHANGED <<tfa, tfaLock, pending, made, login, begun, accepted>>

LoginStep(r) ==
  \/ AuthenticateUser(r) \/ AddTotp(r) \/ AddRecovery(r) \/ DeleteUserTfa(r)
  \/ \E t \in tickets : Authenticate2nd(r, t)
  \/ \E f \in {"u2f", "webauthn"} : AddRegistration(r, f)
  \/ \E f \in {"u2f", "webauthn"}, c \in Challenges : FinishRegistration(r, f, c)
  \/ \E f \in Factors : UpdateTfaEntry(r, f)
  \/ \E f \in Factors \cup {"recovery"} : DeleteTfa(r, f)
  \/ LockTfa(r) \/ LockTimeout(r) \/ ReadTfa(r) \/ WriteTfa(r)
  \/ MakeChallenge(r) \/ VerifyTotpOrU2f(r) \/ VerifyWebauthn(r) \/ VerifyRecovery(r) \/ VerifyFails(r)
  \/ RegistrationChallenge(r) \/ RegistrationFinish(r) \/ ChangeFactors(r) \/ ActFails(r)

TfaNext == ExpireChallenge \/ ExpireTicket \/ \E r \in Logins : LoginStep(r)
TfaSpec == TfaInit /\ [][TfaNext]_tfaVars
-----------------------------------------------------------------------------
(* A recovery key, and the challenge of a webauthn login, are good for one *)
(* login: two logins that present the same one at the same time, and       *)
(* requests that change other factors meanwhile, never make it usable      *)
(* again.                                                                  *)
SecretsUsedOnce == \A x \in DOMAIN accepted : accepted[x] <= 1
=============================================================================
