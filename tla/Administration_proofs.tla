------------------------ MODULE Administration_proofs ------------------------
(***************************************************************************)
(* Proofs about the administration of the server: a second factor is good  *)
(* for one login (SecondFactor), a handler that saves a configuration file *)
(* loses no change of another one (ConfigFiles), a right that was taken    *)
(* away is gone after the time of the cache (AccessControl), a job works   *)
(* on the tape that it has asked for (TapeChanger), and the statistics     *)
(* show what was measured (RoundRobin).                                    *)
(***************************************************************************)
EXTENDS SecondFactor, ConfigFiles, AccessControl, TapeChanger, RoundRobin, FiniteSetTheorems,
        WellFoundedInduction, TLAPS

-----------------------------------------------------------------------------
(* SecondFactor.                                                           *)

(* Requests that return the error of write_lock().                         *)
FailingOps == {"challenge", "toggle", "delete", "delete_user"}
TfaOps == FailingOps \cup {"", "verify", "add", "register", "finish"}
FactorNames == Factors \cup {"recovery"}
FactorData == [FactorNames -> {"none", "on", "off"} \cup SUBSET RecoveryKeys]
LoginType == [pc : {"idle", "lock", "read", "act", "write"}, op : TfaOps, arg : FactorNames \cup {""},
              key : Nat, locked : BOOLEAN, data : FactorData]

TfaTypeOK ==
  /\ tfa \in FactorData /\ tfa["recovery"] \subseteq RecoveryKeys
  /\ login \in [Logins -> LoginType]
  /\ \A r \in Logins : login[r].data["recovery"] \subseteq RecoveryKeys
  /\ accepted \in [RecoveryKeys \cup Challenges -> Nat]
  /\ made \in Nat
  /\ \A t \in tickets : t.u2f \in Nat /\ t.webauthn \in Nat

(* Who has read the file holds its lock, and what a request has read is    *)
(* what the file says.                                                     *)
HolderInv == \A r \in Logins :
  /\ login[r].pc \in {"idle", "lock"} => ~login[r].locked
  /\ login[r].pc \in {"read", "act", "write"} => login[r].locked /\ tfaLock = r
  /\ login[r].pc = "act" => login[r].data = tfa

(* What a request is about.                                                *)
RequestInv == \A r \in Logins :
  /\ login[r].op \in {"register", "finish"} => login[r].arg \in {"u2f", "webauthn"}
  /\ login[r].op \in {"toggle", "delete"} => login[r].arg \in FactorNames
  /\ login[r].op = "toggle" => login[r].arg # "recovery"

(* A recovery key that is left, in the file or in what is about to be      *)
(* written, has not been used.                                             *)
KeyInv ==
  /\ \A k \in RecoveryKeys : accepted[k] <= 1
  /\ \A r \in Logins : login[r].pc = "write" => \A k \in login[r].data["recovery"] : accepted[k] = 0
  /\ (\A r \in Logins : login[r].pc # "write") => \A k \in tfa["recovery"] : accepted[k] = 0

(* Neither has a challenge that is kept or that is yet to come.            *)
ChallengeInv ==
  /\ \A e \in pending : e[2] \in Challenges
  /\ \A c \in Challenges : /\ accepted[c] <= 1
                           /\ c > made => accepted[c] = 0
                           /\ <<"auth", c>> \in pending => c <= made /\ accepted[c] = 0

TfaInv == TfaTypeOK /\ HolderInv /\ RequestInv /\ KeyInv /\ ChallengeInv

(* Challenges are numbers from one on, and no recovery key is one.         *)
LEMMA SecretFacts ==
  /\ Challenges \subseteq Nat /\ RecoveryKeys \subseteq Nat
  /\ 0 \notin Challenges /\ 0 \notin RecoveryKeys
  /\ \A c \in Challenges : c \notin RecoveryKeys
<1>1. Cardinality(Challenges) \in Nat
  BY FactorAssumption, FS_CardinalityType
<1>2. 1 .. Cardinality(Challenges) \subseteq Nat /\ 0 \notin 1 .. Cardinality(Challenges)
  BY <1>1
<1> QED BY <1>2, FactorAssumption

(* No factor, and no request.                                              *)
LEMMA NoFactorFacts ==
  /\ NoFactors \in FactorData /\ NoFactors["recovery"] = {}
  /\ NoLogin \in LoginType /\ NoLogin.pc = "idle" /\ ~NoLogin.locked
  /\ NoLogin.data = NoFactors /\ NoLogin.op \notin {"register", "finish", "toggle", "delete"}
<1>1. NoFactors \in FactorData /\ NoFactors["recovery"] = {}
  BY DEF NoFactors, FactorData, FactorNames, Factors
<1>2. /\ NoLogin.pc = "idle" /\ ~NoLogin.locked
      /\ NoLogin.data = NoFactors /\ NoLogin.op \notin {"register", "finish", "toggle", "delete"}
  BY DEF NoLogin
<1>3. NoLogin \in LoginType
  BY <1>1 DEF NoLogin, LoginType, TfaOps
<1> QED BY <1>1, <1>2, <1>3

(* One request is replaced.                                                *)
LEMMA LoginUpdate ==
  ASSUME TfaInv, NEW r \in Logins, NEW q \in LoginType, login' = [login EXCEPT ![r] = q],
         q.data["recovery"] \subseteq RecoveryKeys
  PROVE  /\ login' \in [Logins -> LoginType] /\ login'[r] = q
         /\ \A s \in Logins : s # r => login'[s] = login[s]
         /\ \A s \in Logins : login'[s].data["recovery"] \subseteq RecoveryKeys
<1>1. login \in [Logins -> LoginType] /\ \A s \in Logins : login[s].data["recovery"] \subseteq RecoveryKeys
  BY DEF TfaInv, TfaTypeOK
<1>2. /\ login' \in [Logins -> LoginType] /\ login'[r] = q
      /\ \A s \in Logins : s # r => login'[s] = login[s]
  BY <1>1
<1> QED BY <1>1, <1>2

(* Only one request is past the lock.                                      *)
LEMMA OneHolder ==
  ASSUME TfaInv, NEW r \in Logins, login[r].pc \in {"read", "act", "write"}, NEW s \in Logins, s # r
  PROVE  login[s].pc \in {"idle", "lock"}
<1>1. login[s].pc \in {"idle", "lock", "read", "act", "write"}
  BY DEF TfaInv, TfaTypeOK, LoginType
<1> QED BY <1>1 DEF TfaInv, HolderInv

(* A request begins.                                                       *)
LEMMA BeginStep ==
  ASSUME TfaInv, NEW r \in Logins, NEW op \in TfaOps, NEW arg \in FactorNames \cup {""}, NEW key \in Nat,
         StartLogin(r, op, arg, key),
         op \in {"register", "finish"} => arg \in {"u2f", "webauthn"},
         op \in {"toggle", "delete"} => arg \in FactorNames,
         op = "toggle" => arg # "recovery"
  PROVE  TfaInv'
<1> USE NoFactorFacts
<1> DEFINE q == [NoLogin EXCEPT !.pc = "lock", !.op = op, !.arg = arg, !.key = key]
<1>1. TfaTypeOK /\ HolderInv /\ RequestInv /\ KeyInv /\ ChallengeInv
  BY DEF TfaInv
<1>2. /\ login[r].pc = "idle" /\ login' = [login EXCEPT ![r] = q]
      /\ UNCHANGED <<tfa, tfaLock, pending, made, tickets, accepted>>
  BY DEF StartLogin, Idle
<1>3. q \in LoginType /\ q.pc = "lock" /\ ~q.locked /\ q.data = NoFactors /\ q.op = op /\ q.arg = arg
  BY DEF LoginType
<1> HIDE DEF q
<1>4. /\ login' \in [Logins -> LoginType] /\ login'[r] = q
      /\ \A s \in Logins : s # r => login'[s] = login[s]
      /\ \A s \in Logins : login'[s].data["recovery"] \subseteq RecoveryKeys
  BY <1>2, <1>3, LoginUpdate
<1>5. TfaTypeOK'
  BY <1>1, <1>2, <1>4 DEF TfaTypeOK
<1>6. HolderInv' /\ RequestInv'
  BY <1>1, <1>2, <1>3, <1>4 DEF HolderInv, RequestInv
<1>7. KeyInv'
  BY <1>1, <1>2, <1>3, <1>4 DEF KeyInv
<1>8. ChallengeInv'
  BY <1>1, <1>2 DEF ChallengeInv
<1> QED BY <1>5, <1>6, <1>7, <1>8 DEF TfaInv

(* The lock is taken, or the file read.                                    *)
LEMMA LockStep ==
  ASSUME TfaInv, NEW r \in Logins, LockTfa(r) \/ ReadTfa(r)
  PROVE  TfaInv'
<1>1. TfaTypeOK /\ HolderInv /\ RequestInv /\ KeyInv /\ ChallengeInv
  BY DEF TfaInv
<1>2. login[r] \in LoginType /\ login[r].data["recovery"] \subseteq RecoveryKeys
      /\ tfa \in FactorData /\ tfa["recovery"] \subseteq RecoveryKeys
  BY <1>1 DEF TfaTypeOK
<1>3. UNCHANGED <<tfa, pending, made, tickets, accepted>>
  BY DEF LockTfa, ReadTfa
<1>4. CASE LockTfa(r)
  <2> DEFINE q == [login[r] EXCEPT !.pc = "read", !.locked = TRUE]
  <2>1. login[r].pc = "lock" /\ tfaLock = 0 /\ tfaLock' = r /\ login' = [login EXCEPT ![r] = q]
    BY <1>4 DEF LockTfa, WriteLock
  <2>2. /\ q \in LoginType /\ q.pc = "read" /\ q.locked /\ q.data = login[r].data
        /\ q.op = login[r].op /\ q.arg = login[r].arg
    BY <1>2 DEF LoginType
  <2> HIDE DEF q
  <2>3. /\ login' \in [Logins -> LoginType] /\ login'[r] = q
        /\ \A s \in Logins : s # r => login'[s] = login[s]
        /\ \A s \in Logins : login'[s].data["recovery"] \subseteq RecoveryKeys
    BY <1>2, <2>1, <2>2, LoginUpdate
  <2>4. \A s \in Logins : login[s].pc \notin {"read", "act", "write"}
    BY <1>1, <2>1, FactorAssumption DEF HolderInv
  <2>5. TfaTypeOK'
    BY <1>1, <1>3, <2>3 DEF TfaTypeOK
  <2>6. HolderInv' /\ RequestInv'
    BY <1>1, <1>3, <2>1, <2>2, <2>3, <2>4 DEF HolderInv, RequestInv
  <2>7. KeyInv'
    BY <1>1, <1>3, <2>1, <2>2, <2>3, <2>4 DEF KeyInv
  <2>8. ChallengeInv'
    BY <1>1, <1>3 DEF ChallengeInv
  <2> QED BY <2>5, <2>6, <2>7, <2>8 DEF TfaInv
<1>5. CASE ReadTfa(r)
  <2> DEFINE q == [login[r] EXCEPT !.pc = "act", !.data = tfa]
  <2>1. login[r].pc = "read" /\ tfaLock' = tfaLock /\ login' = [login EXCEPT ![r] = q]
    BY <1>5 DEF ReadTfa
  <2>2. /\ q \in LoginType /\ q.pc = "act" /\ q.locked = login[r].locked /\ q.data = tfa
        /\ q.op = login[r].op /\ q.arg = login[r].arg
    BY <1>2 DEF LoginType
  <2> HIDE DEF q
  <2>3. /\ login' \in [Logins -> LoginType] /\ login'[r] = q
        /\ \A s \in Logins : s # r => login'[s] = login[s]
        /\ \A s \in Logins : login'[s].data["recovery"] \subseteq RecoveryKeys
    BY <1>2, <2>1, <2>2, LoginUpdate
  <2>5. TfaTypeOK'
    BY <1>1, <1>3, <2>3 DEF TfaTypeOK
  <2>6. HolderInv' /\ RequestInv'
    BY <1>1, <1>3, <2>1, <2>2, <2>3 DEF HolderInv, RequestInv
  <2>7. KeyInv'
    BY <1>1, <1>3, <2>1, <2>2, <2>3 DEF KeyInv
  <2>8. ChallengeInv'
    BY <1>1, <1>3 DEF ChallengeInv
  <2> QED BY <2>5, <2>6, <2>7, <2>8 DEF TfaInv
<1> QED BY <1>4, <1>5

(* A request ends without a write, and gives the lock back if it has it.   *)
LEMMA EndStep ==
  ASSUME TfaInv, NEW r \in Logins,
         \/ FailLogin(r) /\ login[r].pc = "act"
         \/ /\ login[r].pc = "lock" /\ login' = [login EXCEPT ![r] = NoLogin]
            /\ UNCHANGED <<tfa, tfaLock, pending, made, tickets, begun, accepted>>
  PROVE  TfaInv'
<1> USE NoFactorFacts
<1>1. TfaTypeOK /\ HolderInv /\ RequestInv /\ KeyInv /\ ChallengeInv
  BY DEF TfaInv
<1>2. login' = [login EXCEPT ![r] = NoLogin] /\ UNCHANGED <<tfa, pending, made, tickets, accepted>>
  BY DEF FailLogin, EndLogin
<1>3. /\ login' \in [Logins -> LoginType] /\ login'[r] = NoLogin
      /\ \A s \in Logins : s # r => login'[s] = login[s]
      /\ \A s \in Logins : login'[s].data["recovery"] \subseteq RecoveryKeys
  BY <1>2, LoginUpdate
<1>4. \A s \in Logins : s # r /\ login[s].pc \in {"read", "act", "write"} => tfaLock' = tfaLock
  <2>1. CASE login[r].pc = "act"
    BY <2>1, OneHolder
  <2>2. CASE login[r].pc # "act"
    BY <2>2
  <2> QED BY <2>1, <2>2
<1>5. TfaTypeOK'
  BY <1>1, <1>2, <1>3 DEF TfaTypeOK
<1>6. HolderInv' /\ RequestInv'
  BY <1>1, <1>2, <1>3, <1>4 DEF HolderInv, RequestInv
<1>7. KeyInv'
  BY <1>1, <1>2, <1>3 DEF KeyInv
<1>8. ChallengeInv'
  BY <1>1, <1>2 DEF ChallengeInv
<1> QED BY <1>5, <1>6, <1>7, <1>8 DEF TfaInv

(* A request has decided what is to be written.                            *)
LEMMA ToWriteStep ==
  ASSUME TfaInv, NEW r \in Logins, login[r].pc = "act",
         NEW d \in FactorData, d["recovery"] \subseteq RecoveryKeys, ToWrite(r, d), UNCHANGED tfa,
         accepted' \in [RecoveryKeys \cup Challenges -> Nat],
         \A k \in RecoveryKeys : accepted'[k] <= 1,
         \A k \in d["recovery"] : accepted'[k] = 0,
         made' \in Nat, \A t \in tickets' : t.u2f \in Nat /\ t.webauthn \in Nat, ChallengeInv'
  PROVE  TfaInv'
<1> DEFINE q == [login[r] EXCEPT !.pc = "write", !.data = d]
<1>1. TfaTypeOK /\ HolderInv /\ RequestInv /\ KeyInv /\ ChallengeInv
  BY DEF TfaInv
<1>2. login[r] \in LoginType
  BY <1>1 DEF TfaTypeOK
<1>3. login' = [login EXCEPT ![r] = q] /\ tfaLock' = tfaLock
  BY DEF ToWrite
<1>4. /\ q \in LoginType /\ q.pc = "write" /\ q.locked = login[r].locked /\ q.data = d
      /\ q.op = login[r].op /\ q.arg = login[r].arg
  BY <1>2 DEF LoginType
<1> HIDE DEF q
<1>5. /\ login' \in [Logins -> LoginType] /\ login'[r] = q
      /\ \A s \in Logins : s # r => login'[s] = login[s]
      /\ \A s \in Logins : login'[s].data["recovery"] \subseteq RecoveryKeys
  BY <1>3, <1>4, LoginUpdate
<1>6. \A s \in Logins : s # r => login[s].pc \in {"idle", "lock"}
  BY OneHolder
<1>7. TfaTypeOK'
  BY <1>1, <1>5 DEF TfaTypeOK
<1>8. HolderInv' /\ RequestInv'
  BY <1>1, <1>3, <1>4, <1>5, <1>6 DEF HolderInv, RequestInv
<1>9. KeyInv'
  BY <1>4, <1>5, <1>6 DEF KeyInv
<1> QED BY <1>7, <1>8, <1>9 DEF TfaInv

(* Who is about to write has the file as it is.                            *)
LEMMA ActFacts ==
  ASSUME TfaInv, NEW r \in Logins, login[r].pc = "act"
  PROVE  /\ login[r] \in LoginType /\ login[r].data = tfa
         /\ tfa \in FactorData /\ tfa["recovery"] \subseteq RecoveryKeys
         /\ \A k \in tfa["recovery"] : accepted[k] = 0
<1>1. TfaTypeOK /\ HolderInv /\ KeyInv
  BY DEF TfaInv
<1>2. \A s \in Logins : login[s].pc # "write"
  BY OneHolder
<1> QED BY <1>1, <1>2 DEF TfaTypeOK, HolderInv, KeyInv

(* A challenge is made.                                                    *)
LEMMA ChallengeStep ==
  ASSUME TfaInv, NEW r \in Logins, MakeChallenge(r) \/ RegistrationChallenge(r)
  PROVE  TfaInv'
<1> DEFINE d == login[r].data
           c == made + 1
<1>1. TfaTypeOK /\ RequestInv /\ KeyInv /\ ChallengeInv
  BY DEF TfaInv
<1>2. login[r].pc = "act"
  BY DEF MakeChallenge, RegistrationChallenge, Acting
<1>3. /\ d \in FactorData /\ d = tfa /\ tfa["recovery"] \subseteq RecoveryKeys
      /\ \A k \in d["recovery"] : accepted[k] = 0
  BY <1>2, ActFacts
<1>4. CASE FailLogin(r)
  BY <1>2, <1>4, EndStep
<1>5. CASE ~FailLogin(r)
  <2>1. /\ ToWrite(r, d) /\ UNCHANGED <<tfa, accepted>>
        /\ \/ made' = made /\ pending' = pending
           \/ made' = c /\ c \in Challenges /\ (pending' = pending \/ pending' = pending \cup {<<"auth", c>>})
           \/ made' = c /\ c \in Challenges /\ pending' = pending \cup {<<login[r].arg, c>>} /\ login[r].arg # "auth"
    <3>1. CASE MakeChallenge(r)
      BY <1>5, <3>1 DEF MakeChallenge
    <3>2. CASE RegistrationChallenge(r)
      <4>1. login[r].arg # "auth"
        BY <1>1, <3>2 DEF RequestInv, RegistrationChallenge, Acting
      <4> QED BY <3>2, <4>1 DEF RegistrationChallenge
    <3> QED BY <3>1, <3>2
  <2>2. made \in Nat /\ made' \in Nat /\ made <= made'
    BY <1>1, <2>1 DEF TfaTypeOK
  <2>3. \A t \in tickets' : t.u2f \in Nat /\ t.webauthn \in Nat
    <3>1. CASE MakeChallenge(r)
      <4> DEFINE wa == d.webauthn = "on"
                 u2 == d.u2f = "on"
                 n == [totp |-> d.totp = "on", u2f |-> IF u2 THEN c ELSE 0, webauthn |-> IF wa THEN c ELSE 0]
      <4>1. tickets' = tickets \cup {n}
        BY <1>5, <3>1 DEF MakeChallenge
      <4>2. n.u2f \in Nat /\ n.webauthn \in Nat
        BY <2>2
      <4> HIDE DEF n
      <4> QED BY <1>1, <4>1, <4>2 DEF TfaTypeOK
    <3>2. CASE RegistrationChallenge(r)
      BY <1>1, <3>2 DEF TfaTypeOK, RegistrationChallenge
    <3> QED BY <3>1, <3>2
  <2>4. ChallengeInv'
    <3> SUFFICES ASSUME NEW x \in Challenges
                 PROVE  /\ accepted[x] <= 1 /\ (x > made' => accepted[x] = 0)
                        /\ <<"auth", x>> \in pending' => x <= made' /\ accepted[x] = 0
      <4>1. \A e \in pending' : e[2] \in Challenges
        BY <1>1, <2>1 DEF ChallengeInv
      <4> QED BY <2>1, <4>1 DEF ChallengeInv
    <3>1. x \in Nat /\ accepted[x] <= 1 /\ (x > made => accepted[x] = 0)
          /\ (<<"auth", x>> \in pending => x <= made /\ accepted[x] = 0)
      BY <1>1, SecretFacts DEF ChallengeInv
    <3>2. <<"auth", x>> \in pending' => <<"auth", x>> \in pending \/ (x = c /\ made' = c)
      BY <2>1
    <3>3. x = c => x > made
      BY <2>2
    <3> QED BY <2>2, <3>1, <3>2, <3>3
  <2>5. accepted' \in [RecoveryKeys \cup Challenges -> Nat] /\ \A k \in RecoveryKeys : accepted'[k] <= 1
    BY <1>1, <2>1 DEF TfaTypeOK, KeyInv
  <2> HIDE DEF d
  <2> QED BY <1>2, <1>3, <2>1, <2>2, <2>3, <2>4, <2>5, ToWriteStep
<1> QED BY <1>4, <1>5

(* One more login with a secret.                                           *)
LEMMA Counted ==
  ASSUME TfaTypeOK, NEW x,
         accepted' = IF x \in DOMAIN accepted THEN [accepted EXCEPT ![x] = accepted[x] + 1] ELSE accepted
  PROVE  /\ accepted' \in [RecoveryKeys \cup Challenges -> Nat]
         /\ \A y \in RecoveryKeys \cup Challenges :
              accepted'[y] = IF y = x THEN accepted[y] + 1 ELSE accepted[y]
<1> DEFINE D == RecoveryKeys \cup Challenges
<1>1. accepted \in [D -> Nat]
  BY DEF TfaTypeOK
<1> HIDE DEF D
<1>2. CASE x \in D
  <2>1. accepted' = [accepted EXCEPT ![x] = accepted[x] + 1] /\ accepted[x] + 1 \in Nat
    BY <1>1, <1>2
  <2>2. accepted' \in [D -> Nat] /\ \A y \in D : accepted'[y] = IF y = x THEN accepted[y] + 1 ELSE accepted[y]
    BY <1>1, <2>1
  <2> QED BY <2>2 DEF D
<1>3. CASE x \notin D
  <2>1. accepted' = accepted
    BY <1>1, <1>3
  <2> QED BY <1>1, <1>3, <2>1 DEF D
<1> QED BY <1>2, <1>3

(* A second factor is accepted.                                            *)
LEMMA AcceptStep ==
  ASSUME TfaInv, NEW r \in Logins, VerifyTotpOrU2f(r) \/ VerifyWebauthn(r) \/ VerifyRecovery(r)
  PROVE  TfaInv'
<1> USE SecretFacts
<1> DEFINE k == login[r].key
<1>1. TfaTypeOK /\ KeyInv /\ ChallengeInv
  BY DEF TfaInv
<1>2. login[r].pc = "act" /\ UNCHANGED <<tfa, made, tickets>>
  BY DEF VerifyTotpOrU2f, VerifyWebauthn, VerifyRecovery, Acting
<1>3. /\ login[r] \in LoginType /\ login[r].data = tfa
      /\ tfa \in FactorData /\ tfa["recovery"] \subseteq RecoveryKeys
      /\ \A x \in tfa["recovery"] : accepted[x] = 0
  BY <1>2, ActFacts
<1>4. /\ accepted \in [RecoveryKeys \cup Challenges -> Nat] /\ made \in Nat
      /\ \A t \in tickets' : t.u2f \in Nat /\ t.webauthn \in Nat
  BY <1>1, <1>2 DEF TfaTypeOK
<1>5. CASE VerifyTotpOrU2f(r)
  <2>1. ToWrite(r, tfa) /\ accepted' = accepted /\ pending' = pending
    BY <1>3, <1>4, <1>5 DEF VerifyTotpOrU2f, Accept
  <2>2. ChallengeInv'
    BY <1>1, <1>2, <2>1 DEF ChallengeInv
  <2>3. \A x \in RecoveryKeys : accepted[x] <= 1
    BY <1>1 DEF KeyInv
  <2> QED BY <1>2, <1>3, <1>4, <2>1, <2>2, <2>3, ToWriteStep
<1>6. CASE VerifyWebauthn(r)
  <2>1. ToWrite(r, tfa) /\ <<"auth", k>> \in pending /\ pending' = pending \ {<<"auth", k>>}
        /\ accepted' = IF k \in DOMAIN accepted THEN [accepted EXCEPT ![k] = accepted[k] + 1] ELSE accepted
    BY <1>3, <1>6 DEF VerifyWebauthn, Accept
  <2>2. accepted' \in [RecoveryKeys \cup Challenges -> Nat]
    BY <1>1, <2>1, Counted
  <2>3. \A x \in RecoveryKeys \cup Challenges :
          accepted'[x] = IF x = k THEN accepted[x] + 1 ELSE accepted[x]
    BY <1>1, <2>1, Counted
  <2>4. ChallengeInv'
    <3> SUFFICES ASSUME NEW x \in Challenges
                 PROVE  /\ accepted'[x] <= 1 /\ (x > made => accepted'[x] = 0)
                        /\ <<"auth", x>> \in pending' => x <= made /\ accepted'[x] = 0
      BY <1>1, <1>2, <2>1 DEF ChallengeInv
    <3>1. x \in Nat /\ accepted[x] <= 1 /\ (x > made => accepted[x] = 0)
          /\ (<<"auth", x>> \in pending => x <= made /\ accepted[x] = 0)
      BY <1>1 DEF ChallengeInv
    <3>2. CASE x = k
      BY <1>4, <2>1, <2>3, <3>1, <3>2
    <3>3. CASE x # k
      BY <2>1, <2>3, <3>1, <3>3
    <3> QED BY <3>2, <3>3
  <2>5. k \notin RecoveryKeys
    <3>1. <<"auth", k>>[2] = k
      OBVIOUS
    <3>2. k \in Challenges
      BY <1>1, <2>1, <3>1 DEF ChallengeInv
    <3> QED BY <3>2
  <2>6. (\A x \in RecoveryKeys : accepted'[x] <= 1) /\ \A x \in tfa["recovery"] : accepted'[x] = 0
    BY <1>1, <1>3, <2>3, <2>5 DEF KeyInv
  <2> HIDE DEF k
  <2> QED BY <1>2, <1>3, <1>4, <2>1, <2>2, <2>4, <2>6, ToWriteStep
<1>7. CASE VerifyRecovery(r)
  <2> DEFINE d == [tfa EXCEPT !.recovery = tfa.recovery \ {k}]
  <2>1. ToWrite(r, d) /\ k \in tfa["recovery"] /\ pending' = pending
        /\ accepted' = IF k \in DOMAIN accepted THEN [accepted EXCEPT ![k] = accepted[k] + 1] ELSE accepted
    <3>1. /\ k \in login[r].data["recovery"] /\ pending' = pending
          /\ ToWrite(r, [login[r].data EXCEPT !.recovery = login[r].data.recovery \ {k}])
          /\ accepted' = IF k \in DOMAIN accepted THEN [accepted EXCEPT ![k] = accepted[k] + 1] ELSE accepted
      BY <1>7 DEF VerifyRecovery, Accept
    <3> QED BY <1>3, <3>1
  <2>2. d \in FactorData /\ d["recovery"] = tfa["recovery"] \ {k}
    BY <1>3 DEF FactorData, FactorNames
  <2> HIDE DEF d
  <2>3. k \in RecoveryKeys /\ accepted[k] = 0
    BY <1>3, <2>1
  <2>4. accepted' \in [RecoveryKeys \cup Challenges -> Nat]
    BY <1>1, <2>1, Counted
  <2>5. \A x \in RecoveryKeys \cup Challenges :
          accepted'[x] = IF x = k THEN accepted[x] + 1 ELSE accepted[x]
    BY <1>1, <2>1, Counted
  <2>6. ChallengeInv'
    BY <1>1, <1>2, <2>1, <2>3, <2>5 DEF ChallengeInv
  <2>7. (\A x \in RecoveryKeys : accepted'[x] <= 1) /\ \A x \in d["recovery"] : accepted'[x] = 0
    <3>1. \A x \in RecoveryKeys : accepted[x] <= 1
      BY <1>1 DEF KeyInv
    <3> HIDE DEF k
    <3>2. \A x \in RecoveryKeys : accepted'[x] <= 1
      BY <2>3, <2>5, <3>1
    <3>3. \A x \in d["recovery"] : x \in RecoveryKeys /\ x # k /\ accepted[x] = 0
      BY <1>3, <2>2
    <3> QED BY <2>5, <3>2, <3>3
  <2>8. d["recovery"] \subseteq RecoveryKeys
    BY <1>3, <2>2
  <2> HIDE DEF k
  <2> QED BY <1>2, <1>3, <1>4, <2>1, <2>2, <2>4, <2>6, <2>7, <2>8, ToWriteStep
<1> QED BY <1>5, <1>6, <1>7

(* A registration is finished, or another request changes its copy.        *)
LEMMA ChangeStepTfa ==
  ASSUME TfaInv, NEW r \in Logins, RegistrationFinish(r) \/ ChangeFactors(r)
  PROVE  TfaInv'
<1> USE SecretFacts
<1> DEFINE q == login[r]
<1>1. TfaTypeOK /\ RequestInv /\ KeyInv /\ ChallengeInv
  BY DEF TfaInv
<1>2. q.pc = "act" /\ UNCHANGED <<tfa, made, tickets>>
  BY DEF RegistrationFinish, ChangeFactors, Acting
<1>3. /\ q \in LoginType /\ q.data = tfa
      /\ tfa \in FactorData /\ tfa["recovery"] \subseteq RecoveryKeys
      /\ \A x \in tfa["recovery"] : accepted[x] = 0
  BY <1>2, ActFacts
<1>4. /\ accepted \in [RecoveryKeys \cup Challenges -> Nat] /\ made \in Nat
      /\ \A t \in tickets' : t.u2f \in Nat /\ t.webauthn \in Nat
      /\ \A x \in RecoveryKeys : accepted[x] <= 1
  BY <1>1, <1>2 DEF TfaTypeOK, KeyInv
<1>5. CASE RegistrationFinish(r)
  <2> DEFINE d == [tfa EXCEPT ![q.arg] = "on"]
  <2>1. ToWrite(r, d) /\ accepted' = accepted /\ pending' \subseteq pending /\ q.arg \in {"u2f", "webauthn"}
    BY <1>1, <1>3, <1>5 DEF RegistrationFinish, RequestInv, Acting
  <2>2. d \in FactorData /\ d["recovery"] = tfa["recovery"]
    BY <1>3, <2>1 DEF FactorData, FactorNames, Factors
  <2> HIDE DEF d
  <2>3. ChallengeInv'
    BY <1>1, <1>2, <2>1 DEF ChallengeInv
  <2> HIDE DEF q
  <2> QED BY <1>2, <1>3, <1>4, <2>1, <2>2, <2>3, ToWriteStep DEF q
<1>6. CASE ChangeFactors(r)
  <2> DEFINE d == ChangedFactors(q.op, q.arg, q.data)
             new == q.op = "add" /\ q.arg = "recovery"
  <2>1. /\ ToWrite(r, d) /\ pending' = pending
        /\ MayChange(q.op, q.arg, q.data)
        /\ q.op \in {"add", "delete", "toggle", "delete_user"}
        /\ accepted' = IF new THEN [x \in DOMAIN accepted |-> IF x \in RecoveryKeys THEN 0 ELSE accepted[x]]
                       ELSE accepted
    BY <1>6 DEF ChangeFactors
  <2>2. /\ q.op \in {"delete", "toggle"} => q.arg \in FactorNames
        /\ q.op = "toggle" => q.arg # "recovery"
    BY <1>1 DEF RequestInv
  <2>3. d \in FactorData /\ d["recovery"] \subseteq RecoveryKeys /\ (new \/ d["recovery"] \subseteq tfa["recovery"])
    <3>1. CASE q.op = "delete_user"
      BY <3>1, NoFactorFacts DEF ChangedFactors
    <3>2. CASE new
      <4>1. d = [tfa EXCEPT !["recovery"] = RecoveryKeys]
        BY <1>3, <3>2 DEF ChangedFactors
      <4> HIDE DEF d
      <4> QED BY <1>3, <3>2, <4>1 DEF FactorData, FactorNames
    <3>3. CASE q.op = "add" /\ ~new
      <4>1. q.arg = "totp" /\ d = [tfa EXCEPT !["totp"] = "on"]
        BY <1>3, <2>1, <3>3 DEF ChangedFactors, MayChange
      <4> HIDE DEF d
      <4> QED BY <1>3, <4>1 DEF FactorData, FactorNames, Factors
    <3>4. CASE q.op = "delete"
      <4>1. d = [tfa EXCEPT ![q.arg] = NoFactors[q.arg]] /\ q.arg \in FactorNames
        BY <1>3, <2>2, <3>4 DEF ChangedFactors
      <4>2. NoFactors[q.arg] \in {"none", "on", "off"} \cup SUBSET RecoveryKeys /\ NoFactors["recovery"] = {}
        BY <4>1, NoFactorFacts DEF FactorData
      <4> HIDE DEF d, q
      <4>3. d \in FactorData
        BY <1>3, <4>1, <4>2 DEF FactorData
      <4>4. d["recovery"] = IF q.arg = "recovery" THEN {} ELSE tfa["recovery"]
        BY <1>3, <4>1, <4>2 DEF FactorData, FactorNames
      <4> QED BY <1>3, <4>3, <4>4
    <3>5. CASE q.op = "toggle"
      <4> DEFINE v == IF tfa[q.arg] = "on" THEN "off" ELSE "on"
      <4>1. d = [tfa EXCEPT ![q.arg] = v] /\ q.arg \in FactorNames /\ q.arg # "recovery"
        BY <1>3, <2>2, <3>5 DEF ChangedFactors
      <4>2. v \in {"none", "on", "off"} \cup SUBSET RecoveryKeys
        OBVIOUS
      <4> HIDE DEF d, q, v
      <4>3. d \in FactorData
        BY <1>3, <4>1, <4>2 DEF FactorData
      <4>4. d["recovery"] = tfa["recovery"]
        BY <1>3, <4>1, <4>2 DEF FactorData, FactorNames
      <4> QED BY <1>3, <4>3, <4>4
    <3> QED BY <2>1, <3>1, <3>2, <3>3, <3>4, <3>5
  <2> HIDE DEF d
  <2>4. CASE new
    <3>1. accepted' = [x \in RecoveryKeys \cup Challenges |-> IF x \in RecoveryKeys THEN 0 ELSE accepted[x]]
      BY <1>4, <2>1, <2>4
    <3>2. /\ accepted' \in [RecoveryKeys \cup Challenges -> Nat]
          /\ \A x \in RecoveryKeys : accepted'[x] = 0
          /\ \A x \in Challenges : accepted'[x] = accepted[x]
      BY <1>4, <3>1
    <3>3. ChallengeInv'
      BY <1>1, <1>2, <2>1, <3>2 DEF ChallengeInv
    <3>4. (\A x \in RecoveryKeys : accepted'[x] <= 1) /\ \A x \in d["recovery"] : accepted'[x] = 0
      <4> HIDE DEF new, q
      <4>1. \A x \in RecoveryKeys : accepted'[x] <= 1
        BY <3>2
      <4>2. \A x \in d["recovery"] : accepted'[x] = 0
        BY <2>3, <3>2
      <4> QED BY <4>1, <4>2
    <3> HIDE DEF new, q
    <3> QED BY <1>2, <1>3, <1>4, <2>1, <2>3, <3>2, <3>3, <3>4, ToWriteStep DEF q
  <2>5. CASE ~new
    <3>1. accepted' = accepted
      BY <2>1, <2>5
    <3>2. ChallengeInv'
      BY <1>1, <1>2, <2>1, <3>1 DEF ChallengeInv
    <3>3. \A x \in d["recovery"] : accepted'[x] = 0
      BY <1>3, <2>3, <2>5, <3>1
    <3> QED BY <1>2, <1>3, <1>4, <2>1, <2>3, <3>1, <3>2, <3>3, ToWriteStep
  <2> QED BY <2>4, <2>5
<1> QED BY <1>5, <1>6

(* The file is written, and the lock given back.                           *)
LEMMA WriteStep ==
  ASSUME TfaInv, NEW r \in Logins, WriteTfa(r)
  PROVE  TfaInv'
<1> USE NoFactorFacts
<1>1. TfaTypeOK /\ HolderInv /\ RequestInv /\ KeyInv /\ ChallengeInv
  BY DEF TfaInv
<1>2. /\ login[r].pc = "write" /\ tfa' = login[r].data
      /\ login' = [login EXCEPT ![r] = NoLogin] /\ UNCHANGED <<pending, made, tickets, accepted>>
  BY DEF WriteTfa, EndLogin
<1>3. /\ login' \in [Logins -> LoginType] /\ login'[r] = NoLogin
      /\ \A s \in Logins : s # r => login'[s] = login[s]
      /\ \A s \in Logins : login'[s].data["recovery"] \subseteq RecoveryKeys
  BY <1>2, LoginUpdate
<1>4. \A s \in Logins : s # r => login[s].pc \in {"idle", "lock"}
  BY <1>2, OneHolder
<1>5. tfa' \in FactorData /\ tfa'["recovery"] \subseteq RecoveryKeys
  BY <1>1, <1>2 DEF TfaTypeOK, LoginType
<1>6. TfaTypeOK'
  BY <1>1, <1>2, <1>3, <1>5 DEF TfaTypeOK
<1>7. HolderInv' /\ RequestInv'
  BY <1>1, <1>2, <1>3, <1>4 DEF HolderInv, RequestInv
<1>8. KeyInv'
  BY <1>1, <1>2, <1>3, <1>4 DEF KeyInv
<1>9. ChallengeInv'
  BY <1>1, <1>2 DEF ChallengeInv
<1> QED BY <1>6, <1>7, <1>8, <1>9 DEF TfaInv

(* Every step keeps the invariant, as long as a request that goes on       *)
(* without the lock always gets it.                                        *)
LEMMA TfaStep ==
  ASSUME MayTimeOut \subseteq FailingOps
  PROVE  TfaInv /\ [TfaNext]_tfaVars => TfaInv'
<1> SUFFICES ASSUME TfaInv, [TfaNext]_tfaVars PROVE TfaInv'
  OBVIOUS
<1> USE SecretFacts
<1>1. TfaTypeOK /\ HolderInv /\ RequestInv /\ KeyInv /\ ChallengeInv
  BY DEF TfaInv
<1>2. ASSUME UNCHANGED tfaVars PROVE TfaInv'
  <2>1. TfaTypeOK' /\ HolderInv' /\ RequestInv'
    BY <1>1, <1>2 DEF tfaVars, TfaTypeOK, HolderInv, RequestInv
  <2>2. KeyInv' /\ ChallengeInv'
    BY <1>1, <1>2 DEF tfaVars, KeyInv, ChallengeInv
  <2> QED BY <2>1, <2>2 DEF TfaInv
<1>3. ASSUME ExpireChallenge \/ ExpireTicket PROVE TfaInv'
  <2>1. UNCHANGED <<tfa, tfaLock, made, login, accepted>> /\ pending' \subseteq pending /\ tickets' \subseteq tickets
    BY <1>3 DEF ExpireChallenge, ExpireTicket
  <2>2. TfaTypeOK' /\ HolderInv' /\ RequestInv'
    BY <1>1, <2>1 DEF TfaTypeOK, HolderInv, RequestInv
  <2>3. KeyInv' /\ ChallengeInv'
    BY <1>1, <2>1 DEF KeyInv, ChallengeInv
  <2> QED BY <2>2, <2>3 DEF TfaInv
<1>4. ASSUME NEW r \in Logins, LoginStep(r) PROVE TfaInv'
  <2>1. CASE AuthenticateUser(r) \/ AddTotp(r) \/ AddRecovery(r) \/ DeleteUserTfa(r)
    BY <2>1, BeginStep DEF AuthenticateUser, AddTotp, AddRecovery, DeleteUserTfa, TfaOps, FailingOps,
       FactorNames, Factors
  <2>2. ASSUME NEW t \in tickets, Authenticate2nd(r, t) PROVE TfaInv'
    <3>1. t.u2f \in Nat /\ t.webauthn \in Nat
      BY <1>1 DEF TfaTypeOK
    <3>2. PICK arg \in FactorNames, key \in Nat : StartLogin(r, "verify", arg, key)
      BY <2>2, <3>1 DEF Authenticate2nd, FactorNames, Factors
    <3> QED BY <3>2, BeginStep DEF TfaOps
  <2>3. ASSUME NEW f \in {"u2f", "webauthn"}, NEW c \in Challenges, FinishRegistration(r, f, c) PROVE TfaInv'
    BY <2>3, BeginStep DEF FinishRegistration, TfaOps, FactorNames, Factors
  <2>4. ASSUME NEW f \in {"u2f", "webauthn"}, AddRegistration(r, f) PROVE TfaInv'
    BY <2>4, BeginStep DEF AddRegistration, TfaOps, FactorNames, Factors
  <2>5. ASSUME NEW f \in Factors, UpdateTfaEntry(r, f) PROVE TfaInv'
    BY <2>5, BeginStep DEF UpdateTfaEntry, TfaOps, FailingOps, FactorNames, Factors
  <2>6. ASSUME NEW f \in Factors \cup {"recovery"}, DeleteTfa(r, f) PROVE TfaInv'
    BY <2>6, BeginStep DEF DeleteTfa, TfaOps, FailingOps, FactorNames
  <2>7. CASE LockTfa(r) \/ ReadTfa(r)
    BY <2>7, LockStep
  <2>8. CASE LockTimeout(r)
    <3>1. login[r].op \in FailingOps
      BY <2>8 DEF LockTimeout
    <3>2. login' = [login EXCEPT ![r] = NoLogin]
      BY <2>8, <3>1 DEF LockTimeout, FailingOps
    <3> QED BY <2>8, <3>2, EndStep DEF LockTimeout
  <2>9. CASE WriteTfa(r)
    BY <2>9, WriteStep
  <2>10. CASE MakeChallenge(r) \/ RegistrationChallenge(r)
    BY <2>10, ChallengeStep
  <2>11. CASE VerifyTotpOrU2f(r) \/ VerifyWebauthn(r) \/ VerifyRecovery(r)
    BY <2>11, AcceptStep
  <2>12. CASE VerifyFails(r) \/ ActFails(r)
    BY <2>12, EndStep DEF VerifyFails, ActFails, Acting
  <2>13. CASE RegistrationFinish(r) \/ ChangeFactors(r)
    BY <2>13, ChangeStepTfa
  <2> QED BY <1>4, <2>1, <2>2, <2>3, <2>4, <2>5, <2>6, <2>7, <2>8, <2>9, <2>10, <2>11, <2>12, <2>13 DEF LoginStep
<1> QED BY <1>2, <1>3, <1>4 DEF TfaNext

(* Nobody has logged in.                                                   *)
LEMMA TfaStart == TfaInit => TfaInv
<1> SUFFICES ASSUME TfaInit PROVE TfaInv
  OBVIOUS
<1> USE SecretFacts, NoFactorFacts
<1>1. PICK w \in {"none", "on"} : tfa = [NoFactors EXCEPT !.recovery = RecoveryKeys, !.webauthn = w]
  BY DEF TfaInit
<1> DEFINE n == [NoFactors EXCEPT !["recovery"] = RecoveryKeys]
<1>2. tfa \in FactorData /\ tfa["recovery"] = RecoveryKeys
  <2>1. n \in FactorData /\ n["recovery"] = RecoveryKeys
    BY DEF FactorData, FactorNames
  <2>2. tfa = [n EXCEPT !["webauthn"] = w]
    BY <1>1
  <2> HIDE DEF n
  <2> QED BY <2>1, <2>2 DEF FactorData, FactorNames, Factors
<1>3. /\ login = [r \in Logins |-> NoLogin] /\ tfaLock = 0 /\ pending = {} /\ tickets = {} /\ made = 0
      /\ accepted = [x \in RecoveryKeys \cup Challenges |-> 0]
  BY DEF TfaInit
<1>4. login \in [Logins -> LoginType] /\ \A r \in Logins : login[r] = NoLogin
  BY <1>3
<1>5. accepted \in [RecoveryKeys \cup Challenges -> Nat] /\ \A x \in RecoveryKeys \cup Challenges : accepted[x] = 0
  BY <1>3
<1>6. TfaTypeOK
  BY <1>2, <1>3, <1>4, <1>5 DEF TfaTypeOK
<1>7. HolderInv /\ RequestInv
  BY <1>4 DEF HolderInv, RequestInv
<1> HIDE DEF n
<1>8. KeyInv /\ ChallengeInv
  <2>1. KeyInv
    <3>1. \A k \in RecoveryKeys : accepted[k] = 0
      BY <1>5, Zenon
    <3>2. \A k \in RecoveryKeys : accepted[k] <= 1
      BY <3>1, SMT
    <3>3. \A r \in Logins : login[r].pc # "write"
      BY <1>4
    <3> QED BY <1>2, <3>1, <3>2, <3>3 DEF KeyInv
  <2>2. ChallengeInv
    BY <1>3, <1>5 DEF ChallengeInv
  <2> QED BY <2>1, <2>2
<1> QED BY <1>6, <1>7, <1>8 DEF TfaInv

(* A recovery key and the challenge of a webauthn login are good for one   *)
(* login, however many logins present it at the same time and whatever     *)
(* requests change other factors meanwhile, when write_lock() times out    *)
(* only in requests that then return its error (src/config/tfa.rs).        *)
THEOREM SecretsGoodOnce ==
  ASSUME MayTimeOut \subseteq FailingOps
  PROVE  TfaSpec => []SecretsUsedOnce
<1>1. TfaInv => SecretsUsedOnce
  BY DEF TfaInv, TfaTypeOK, KeyInv, ChallengeInv, SecretsUsedOnce
<1>2. TfaInv /\ [TfaNext]_tfaVars => TfaInv'
  BY TfaStep
<1> QED BY <1>1, <1>2, TfaStart, PTL DEF TfaSpec

-----------------------------------------------------------------------------
(* ConfigFiles.                                                            *)

AskedFiles == CfgFileNames \ {"tape-keys", "interfaces"}
FileNames == CfgFileNames \cup {""}
OpNames == {"", "create", "update", "delete"}
KindNames == {"", "none", "datastore", "sync", "verification", "remote", "changer", "linux", "backup",
              "pool", "key", "bridge", "bond", "eth"}
RefNames == CfgNames \cup {"", "a"}
SectionType == [kind : KindNames, ref : RefNames, gw : BOOLEAN, rev : Nat]
Contents == [CfgNames -> SectionType]
HandlerType == [pc : {"idle", "lock", "save", "after"}, op : OpNames, file : FileNames, kind : KindNames,
                name : RefNames, ref : RefNames, gw : BOOLEAN, seen : Contents, copy : Contents]

CfgTypeOK ==
  /\ group \in CfgGroups
  /\ cfg \in [group -> Contents]
  /\ cfgLock \in [group -> CfgHandlers \cup {0}]
  /\ handler \in [CfgHandlers -> HandlerType]

(* A handler that is going to save holds the lock of its file.             *)
CfgHolderInv == \A r \in CfgHandlers :
  /\ handler[r].pc # "idle" => handler[r].file \in group \cap AskedFiles /\ handler[r].name \in CfgNames
  /\ handler[r].pc \in {"save", "after"} => cfgLock[handler[r].file] = r

(* Its copy differs from the file in its section only.                     *)
CopyInv == \A r \in CfgHandlers : handler[r].pc = "save" =>
  /\ \A n \in CfgNames \ {handler[r].name} : handler[r].copy[n] = Content(handler[r].file)[n]
  /\ handler[r].seen # NoDigest => handler[r].seen = Content(handler[r].file)

CfgInv == CfgTypeOK /\ CfgHolderInv /\ CopyInv

(* Sections, files and handlers that say nothing.                          *)
LEMMA EmptyFacts ==
  /\ NoSection \in SectionType /\ NoContent \in Contents /\ NoDigest \in Contents
  /\ EmptyFile \in Contents /\ NoHandler \in HandlerType /\ NoHandler.pc = "idle"
<1>1. NoSection \in SectionType
  <2>1. "" \in KindNames /\ "" \in OpNames /\ "" \in FileNames /\ "" \in RefNames /\ FALSE \in BOOLEAN
    BY Zenon DEF KindNames, OpNames, FileNames, RefNames
  <2>2. 0 \in Nat
    OBVIOUS
  <2> QED BY <2>1, <2>2, Zenon DEF NoSection, SectionType
<1>2. [NoSection EXCEPT !.kind = "none"] \in SectionType
  <2>1. "none" \in KindNames
    BY Zenon DEF KindNames
  <2> QED BY <1>1, <2>1 DEF SectionType
<1>3. NoContent \in Contents /\ EmptyFile \in Contents
  BY <1>1, <1>2 DEF NoContent, EmptyFile, Contents
<1>4. NoHandler \in HandlerType /\ NoHandler.pc = "idle"
  <2>1. "" \in KindNames /\ "" \in OpNames /\ "" \in FileNames /\ "" \in RefNames /\ FALSE \in BOOLEAN
    BY Zenon DEF KindNames, OpNames, FileNames, RefNames
  <2>2. "idle" \in {"idle", "lock", "save", "after"} /\ NoDigest \in Contents
    BY <1>3 DEF NoDigest
  <2> QED BY <1>3, <2>1, <2>2, Zenon DEF NoHandler, HandlerType
<1> QED BY <1>1, <1>3, <1>4 DEF NoDigest

(* What is read of a file is a content.                                    *)
LEMMA ContentFacts ==
  ASSUME CfgTypeOK, NEW f \in group
  PROVE  Content(f) \in Contents
<1>1. f = "interfaces.new" => "interfaces" \in group
  BY ConfigAssumption DEF CfgTypeOK
<1> QED BY <1>1 DEF CfgTypeOK, Content

(* One handler is replaced.                                                *)
LEMMA HandlerUpdate ==
  ASSUME CfgTypeOK, NEW r \in CfgHandlers, NEW q \in HandlerType, handler' = [handler EXCEPT ![r] = q]
  PROVE  /\ handler' \in [CfgHandlers -> HandlerType] /\ handler'[r] = q
         /\ \A s \in CfgHandlers : s # r => handler'[s] = handler[s]
BY DEF CfgTypeOK

(* A request comes in.                                                     *)
LEMMA AskedStep ==
  ASSUME CfgInv, NEW r \in CfgHandlers, NEW op \in OpNames, NEW f \in AskedFiles, NEW kind \in KindNames,
         NEW n \in CfgNames, NEW ref \in RefNames, NEW gw \in BOOLEAN, NEW seen \in Contents,
         Ask(r, op, f, kind, n, ref, gw, seen)
  PROVE  CfgInv'
<1> DEFINE q == [NoHandler EXCEPT !.pc = "lock", !.op = op, !.file = f, !.kind = kind, !.name = n,
                                  !.ref = ref, !.gw = gw, !.seen = seen]
<1>1. CfgTypeOK /\ CfgHolderInv /\ CopyInv
  BY DEF CfgInv
<1>2. f \in group /\ handler' = [handler EXCEPT ![r] = q] /\ UNCHANGED <<cfg, cfgLock, group>>
  BY DEF Ask
<1>3. f \in FileNames /\ n \in RefNames
  BY Zenon DEF AskedFiles, FileNames, RefNames
<1>4. q \in HandlerType /\ q.pc = "lock" /\ q.file = f /\ q.name = n
  BY <1>3, EmptyFacts DEF HandlerType
<1> HIDE DEF q
<1>5. /\ handler' \in [CfgHandlers -> HandlerType] /\ handler'[r] = q
      /\ \A s \in CfgHandlers : s # r => handler'[s] = handler[s]
  BY <1>1, <1>2, <1>4, HandlerUpdate
<1>6. CfgTypeOK'
  BY <1>1, <1>2, <1>5 DEF CfgTypeOK
<1>7. CfgHolderInv'
  BY <1>1, <1>2, <1>4, <1>5 DEF CfgHolderInv
<1>8. CopyInv'
  BY <1>1, <1>2, <1>4, <1>5 DEF CopyInv, Content
<1> QED BY <1>6, <1>7, <1>8 DEF CfgInv

(* A request to create, to update with or without a digest, or to delete.  *)
LEMMA RequestStep ==
  ASSUME CfgInv, NEW r \in CfgHandlers, NEW f \in AskedFiles, NEW kind \in KindNames,
         NEW n \in CfgNames, NEW ref \in RefNames, NEW gw \in BOOLEAN
  PROVE  /\ Create(r, f, kind, n, ref) => CfgInv'
         /\ Update(r, f, kind, n, ref) => CfgInv'
         /\ Delete(r, f, kind, n) => CfgInv'
         /\ Ask(r, "create", f, kind, n, ref, gw, NoDigest) => CfgInv'
         /\ Ask(r, "update", f, kind, n, ref, gw, NoDigest) => CfgInv'
         /\ Ask(r, "delete", f, kind, n, ref, gw, NoDigest) => CfgInv'
         /\ \A d \in Digests(f) : f \in group /\ Ask(r, "update", f, kind, n, ref, gw, d) => CfgInv'
<1>1. NoDigest \in Contents /\ "" \in RefNames /\ FALSE \in BOOLEAN
  BY EmptyFacts, Zenon DEF RefNames
<1>2. f \in group => \A d \in Digests(f) : d \in Contents
  BY <1>1, ContentFacts DEF Digests, CfgInv
<1>3. "create" \in OpNames /\ "update" \in OpNames /\ "delete" \in OpNames
  BY Zenon DEF OpNames
<1>4. Create(r, f, kind, n, ref) => CfgInv'
  BY <1>1, <1>3, AskedStep, Zenon DEF Create
<1>5. Update(r, f, kind, n, ref) => CfgInv'
  BY <1>2, <1>3, AskedStep, Zenon DEF Update
<1>6. Delete(r, f, kind, n) => CfgInv'
  BY <1>1, <1>2, <1>3, AskedStep, Zenon DEF Delete
<1>7. /\ Ask(r, "create", f, kind, n, ref, gw, NoDigest) => CfgInv'
      /\ Ask(r, "update", f, kind, n, ref, gw, NoDigest) => CfgInv'
      /\ Ask(r, "delete", f, kind, n, ref, gw, NoDigest) => CfgInv'
  BY <1>1, <1>3, AskedStep, Zenon
<1>8. \A d \in Digests(f) : f \in group /\ Ask(r, "update", f, kind, n, ref, gw, d) => CfgInv'
  BY <1>2, <1>3, AskedStep, Zenon
<1> QED BY <1>4, <1>5, <1>6, <1>7, <1>8, Zenon

(* A handler gives up, or the process ends.                                *)
LEMMA QuitStep ==
  ASSUME CfgInv, UNCHANGED <<cfg, group>>,
         \/ CfgCrash
         \/ \E r \in CfgHandlers : /\ handler[r].pc = "lock" /\ UNCHANGED cfgLock
                                   /\ handler' = [handler EXCEPT ![r] = NoHandler]
  PROVE  CfgInv'
<1> USE EmptyFacts
<1>1. CfgTypeOK /\ CfgHolderInv /\ CopyInv
  BY DEF CfgInv
<1>2. CASE CfgCrash
  <2>1. handler' \in [CfgHandlers -> HandlerType] /\ \A s \in CfgHandlers : handler'[s] = NoHandler
    BY <1>2 DEF CfgCrash
  <2>2. CfgTypeOK'
    BY <1>1, <1>2, <2>1 DEF CfgTypeOK, CfgCrash
  <2> QED BY <2>1, <2>2 DEF CfgInv, CfgHolderInv, CopyInv
<1>3. ASSUME NEW r \in CfgHandlers, handler[r].pc = "lock", UNCHANGED cfgLock,
             handler' = [handler EXCEPT ![r] = NoHandler]
      PROVE  CfgInv'
  <2>1. /\ handler' \in [CfgHandlers -> HandlerType] /\ handler'[r] = NoHandler
        /\ \A s \in CfgHandlers : s # r => handler'[s] = handler[s]
    BY <1>1, <1>3, HandlerUpdate
  <2>2. CfgTypeOK' /\ CfgHolderInv'
    BY <1>1, <1>3, <2>1 DEF CfgTypeOK, CfgHolderInv
  <2>3. CopyInv'
    BY <1>1, <2>1 DEF CopyInv, Content
  <2> QED BY <2>2, <2>3 DEF CfgInv
<1> QED BY <1>2, <1>3

(* The lock is taken, and the copy changed.                                *)
LEMMA LockChangeStep ==
  ASSUME CfgInv, NEW r \in CfgHandlers, LockAndChange(r)
  PROVE  CfgInv'
<1> DEFINE f == handler[r].file
           q == [handler[r] EXCEPT !.copy = Content(f)]
           s == NewSection(q)
           c == [q.copy EXCEPT ![q.name] = s]
           h == [q EXCEPT !.pc = "save", !.copy = c]
<1>1. CfgTypeOK /\ CfgHolderInv /\ CopyInv
  BY DEF CfgInv
<1>2. handler[r] \in HandlerType /\ handler[r].pc = "lock" /\ cfgLock[f] = 0 /\ UNCHANGED <<cfg, group>>
  BY <1>1 DEF CfgTypeOK, LockAndChange, LockIsFree
<1>3. f \in group /\ f \in AskedFiles /\ handler[r].name \in CfgNames
  BY <1>1, <1>2 DEF CfgHolderInv
<1>4. Content(f) \in Contents
  BY <1>1, <1>3, ContentFacts
<1>5. /\ q \in HandlerType /\ q.copy = Content(f) /\ q.name = handler[r].name /\ q.file = f
      /\ q.seen = handler[r].seen
  BY <1>2, <1>4 DEF HandlerType
<1>6. CASE handler' = [handler EXCEPT ![r] = NoHandler] /\ UNCHANGED cfgLock
  BY <1>2, <1>6, QuitStep
<1>7. CASE ~(handler' = [handler EXCEPT ![r] = NoHandler] /\ UNCHANGED cfgLock)
  <2>1. /\ handler' = [handler EXCEPT ![r] = h] /\ cfgLock' = [cfgLock EXCEPT ![q.file] = r]
        /\ DetectModified(q)
    BY <1>7, Zenon DEF LockAndChange, NewFile
  <2>2. s \in SectionType
    <3>1. q.copy[q.name] \in SectionType /\ CfgMaxRev \in Nat
      BY <1>3, <1>4, <1>5, ConfigAssumption DEF Contents
    <3>2. (q.copy[q.name].rev + 1) % (CfgMaxRev + 1) \in Nat
      BY <3>1 DEF SectionType
    <3> DEFINE rev == IF q.op = "create" THEN 0 ELSE (q.copy[q.name].rev + 1) % (CfgMaxRev + 1)
    <3>3. rev \in Nat
      BY <3>2
    <3>4. s = IF q.op = "delete" THEN NoSection ELSE [kind |-> q.kind, ref |-> q.ref, gw |-> q.gw, rev |-> rev]
      BY DEF NewSection
    <3> HIDE DEF rev, q, s
    <3>5. q.kind \in KindNames /\ q.ref \in RefNames /\ q.gw \in BOOLEAN
      BY <1>5 DEF HandlerType
    <3> QED BY <3>3, <3>4, <3>5, EmptyFacts DEF SectionType
  <2> HIDE DEF s
  <2>3. c \in Contents /\ \A n \in CfgNames \ {handler[r].name} : c[n] = Content(f)[n]
    <3>1. c = [Content(f) EXCEPT ![handler[r].name] = s]
      BY <1>5
    <3> HIDE DEF c
    <3> QED BY <1>4, <2>2, <3>1 DEF Contents
  <2> HIDE DEF c
  <2>4. /\ h \in HandlerType /\ h.pc = "save" /\ h.copy = c /\ h.file = f
        /\ h.name = handler[r].name /\ h.seen = handler[r].seen
    <3> HIDE DEF q
    <3> QED BY <1>5, <2>3 DEF HandlerType
  <2> HIDE DEF h
  <2>5. /\ handler' \in [CfgHandlers -> HandlerType] /\ handler'[r] = h
        /\ \A x \in CfgHandlers : x # r => handler'[x] = handler[x]
    BY <1>1, <2>1, <2>4, HandlerUpdate
  <2>6. handler[r].seen # NoDigest => handler[r].seen = Content(f)
    BY <1>5, <2>1 DEF DetectModified
  <2>7. cfgLock' = [cfgLock EXCEPT ![f] = r]
    BY <1>5, <2>1
  <2> HIDE DEF q
  <2>8. CfgTypeOK'
    BY <1>1, <1>2, <2>5, <2>7 DEF CfgTypeOK
  <2>9. CfgHolderInv'
    <3>1. \A x \in CfgHandlers : handler[x].pc \in {"save", "after"} => handler[x].file # f
      BY <1>1, <1>2, ConfigAssumption DEF CfgHolderInv
    <3>2. cfgLock'[f] = r /\ \A g \in group : g # f => cfgLock'[g] = cfgLock[g]
      BY <1>1, <1>3, <2>7 DEF CfgTypeOK
    <3> QED BY <1>1, <1>2, <1>3, <2>4, <2>5, <3>1, <3>2 DEF CfgHolderInv
  <2>10. CopyInv'
    <3>1. \A g : Content(g)' = Content(g)
      BY <1>2 DEF Content
    <3> QED BY <1>1, <2>3, <2>4, <2>5, <2>6, <3>1 DEF CopyInv
  <2> QED BY <2>8, <2>9, <2>10 DEF CfgInv
<1> QED BY <1>6, <1>7

(* What a save changes.                                                    *)
LEMMA SaveFacts ==
  ASSUME CfgTypeOK, NEW q \in HandlerType, q.name \in CfgNames, NEW f, Save(f, q)
  PROVE  /\ cfg' \in [group -> Contents]
         /\ \A g \in group : g # f => cfg'[g] = cfg[g]
         /\ f \in group /\ f # "tape-keys" => cfg'[f] = q.copy
         /\ f \in group /\ f = "tape-keys" => \A n \in CfgNames \ {q.name} : cfg'[f][n] = cfg[f][n]
<1> DEFINE c == IF f = "tape-keys" THEN [cfg[f] EXCEPT ![q.name] = q.copy[q.name]] ELSE q.copy
<1>1. cfg \in [group -> Contents] /\ q.copy \in Contents /\ q.copy[q.name] \in SectionType
  BY DEF CfgTypeOK, HandlerType, Contents
<1>2. cfg' = [cfg EXCEPT ![f] = c]
  BY DEF Save
<1>3. CASE f \in group
  <2>1. cfg[f] \in Contents
    BY <1>1, <1>3
  <2>2. [cfg[f] EXCEPT ![q.name] = q.copy[q.name]] \in Contents
    BY <1>1, <2>1 DEF Contents
  <2>3. c \in Contents
    BY <1>1, <2>2
  <2>4. f = "tape-keys" => \A n \in CfgNames \ {q.name} : c[n] = cfg[f][n]
    BY <1>1, <2>1 DEF Contents
  <2>5. f # "tape-keys" => c = q.copy
    OBVIOUS
  <2> HIDE DEF c
  <2>6. cfg' \in [group -> Contents] /\ cfg'[f] = c /\ \A g \in group : g # f => cfg'[g] = cfg[g]
    BY <1>1, <1>2, <1>3, <2>3
  <2> QED BY <2>4, <2>5, <2>6
<1>4. CASE f \notin group
  <2>1. cfg' = cfg
    BY <1>1, <1>2, <1>4
  <2> QED BY <1>1, <1>4, <2>1
<1> QED BY <1>3, <1>4

(* A save leaves the files of other handlers alone.                        *)
LEMMA SaveStep ==
  ASSUME CfgInv, NEW r \in CfgHandlers, handler[r].pc \in {"save", "after"},
         UNCHANGED cfg \/ \E f \in {handler[r].file, "tape-keys"} : Save(f, handler[r]),
         UNCHANGED group,
         \/ EndHandler(r)
         \/ handler' = [handler EXCEPT ![r].pc = "after"] /\ UNCHANGED cfgLock
  PROVE  CfgInv'
<1> USE EmptyFacts
<1> DEFINE file == handler[r].file
<1>1. CfgTypeOK /\ CfgHolderInv /\ CopyInv
  BY DEF CfgInv
<1>2. /\ handler[r] \in HandlerType /\ file \in group /\ file \in AskedFiles
      /\ handler[r].name \in CfgNames /\ cfgLock[file] = r
  BY <1>1 DEF CfgTypeOK, CfgHolderInv
<1>3. cfg' \in [group -> Contents] /\ \A g \in group : g # file /\ g # "tape-keys" => cfg'[g] = cfg[g]
  <2>1. CASE UNCHANGED cfg
    BY <1>1, <2>1 DEF CfgTypeOK
  <2>2. ASSUME NEW f \in {file, "tape-keys"}, Save(f, handler[r]) PROVE <1>3
    BY <1>1, <1>2, <2>2, SaveFacts
  <2> QED BY <2>1, <2>2
<1>4. PICK h \in HandlerType :
        /\ handler' = [handler EXCEPT ![r] = h] /\ h.pc # "save"
        /\ h.pc # "idle" => h.pc = "after" /\ h.file = file /\ h.name = handler[r].name /\ cfgLock' = cfgLock
  <2>1. CASE EndHandler(r)
    BY <2>1 DEF EndHandler
  <2>2. CASE handler' = [handler EXCEPT ![r].pc = "after"] /\ UNCHANGED cfgLock
    <3> DEFINE a == [handler[r] EXCEPT !.pc = "after"]
    <3>1. a \in HandlerType /\ a.pc = "after" /\ a.file = file /\ a.name = handler[r].name
      BY <1>2 DEF HandlerType
    <3>2. handler' = [handler EXCEPT ![r] = a]
      BY <2>2
    <3> HIDE DEF a
    <3> QED BY <2>2, <3>1, <3>2
  <2> QED BY <2>1, <2>2
<1>5. /\ handler' \in [CfgHandlers -> HandlerType] /\ handler'[r] = h
      /\ \A s \in CfgHandlers : s # r => handler'[s] = handler[s]
  BY <1>1, <1>4, HandlerUpdate
<1>6. cfgLock' \in [group -> CfgHandlers \cup {0}] /\ \A g \in group : g # file => cfgLock'[g] = cfgLock[g]
  BY <1>1, <1>2 DEF CfgTypeOK, EndHandler
<1>7. \A s \in CfgHandlers : s # r /\ handler[s].pc \in {"save", "after"} => handler[s].file # file
  BY <1>1, <1>2 DEF CfgHolderInv
<1>8. CfgTypeOK'
  BY <1>1, <1>3, <1>5, <1>6 DEF CfgTypeOK
<1>9. CfgHolderInv'
  BY <1>1, <1>2, <1>4, <1>5, <1>6, <1>7 DEF CfgHolderInv
<1>10. CopyInv'
  <2>1. ASSUME NEW s \in CfgHandlers, handler'[s].pc = "save"
        PROVE  /\ handler'[s] = handler[s] /\ handler[s].pc = "save"
               /\ Content(handler[s].file)' = Content(handler[s].file)
    <3>1. s # r /\ handler'[s] = handler[s] /\ handler[s].pc = "save"
      BY <1>4, <1>5, <2>1
    <3> DEFINE g == handler[s].file
    <3>2. g \in group /\ g \in AskedFiles /\ g # file
      BY <1>1, <1>7, <3>1 DEF CfgHolderInv
    <3>3. cfg'[g] = cfg[g]
      BY <1>3, <3>2 DEF AskedFiles
    <3>4. g = "interfaces.new" => cfg'["interfaces"] = cfg["interfaces"]
      <4>1. g = "interfaces.new" => "interfaces" \in group
        BY <1>1, <3>2, ConfigAssumption DEF CfgTypeOK
      <4> QED BY <1>2, <1>3, <4>1 DEF AskedFiles
    <3>5. Content(handler[s].file)' = Content(handler[s].file)
      BY <3>1, <3>3, <3>4 DEF Content
    <3> QED BY <3>1, <3>5
  <2> QED BY <1>1, <2>1 DEF CopyInv
<1> QED BY <1>8, <1>9, <1>10 DEF CfgInv

(* The requests of the API, one by one.                                    *)
LEMMA ApiStep ==
  ASSUME CfgInv, NEW r \in CfgHandlers, NEW n \in CfgNames, AskStep(r, n)
  PROVE  CfgInv'
<1>1. /\ "datastore" \in AskedFiles /\ "sync" \in AskedFiles /\ "verification" \in AskedFiles
      /\ "tape-job" \in AskedFiles /\ "remote" \in AskedFiles /\ "media-pool" \in AskedFiles
      /\ "tape" \in AskedFiles /\ "tape-key-configs" \in AskedFiles /\ "interfaces.new" \in AskedFiles
  BY DEF AskedFiles, CfgFileNames
<1>2. /\ "datastore" \in KindNames /\ "sync" \in KindNames /\ "verification" \in KindNames
      /\ "remote" \in KindNames /\ "changer" \in KindNames /\ "linux" \in KindNames /\ "backup" \in KindNames
      /\ "pool" \in KindNames /\ "key" \in KindNames /\ "" \in KindNames
      /\ {"bridge", "bond", "eth"} \subseteq KindNames /\ {"bridge", "bond"} \subseteq KindNames
  BY Zenon DEF KindNames
<1>3. "" \in RefNames /\ (\A m \in CfgNames : m \in RefNames) /\ \A m \in CfgNames \cup {""} : m \in RefNames
  BY Zenon DEF RefNames
<1>4. FALSE \in BOOLEAN
  OBVIOUS
<1>5. CreateDatastore(r, n) \/ UpdateDatastore(r, n) \/ DeleteDatastore(r, n) => CfgInv'
  BY <1>1, <1>2, <1>3, <1>4, RequestStep, Zenon DEF CreateDatastore, UpdateDatastore, DeleteDatastore
<1>6. CreateVerificationJob(r, n) \/ UpdateVerificationJob(r, n) \/ DeleteVerificationJob(r, n) => CfgInv'
  BY <1>1, <1>2, <1>3, <1>4, RequestStep, Zenon
  DEF CreateVerificationJob, UpdateVerificationJob, DeleteVerificationJob
<1>7. CreateTapeBackupJob(r, n) \/ UpdateTapeBackupJob(r, n) \/ DeleteTapeBackupJob(r, n) => CfgInv'
  BY <1>1, <1>2, <1>3, <1>4, RequestStep, Zenon
  DEF CreateTapeBackupJob, UpdateTapeBackupJob, DeleteTapeBackupJob
<1>8. CreateRemote(r, n) \/ UpdateRemote(r, n) \/ DeleteRemote(r, n) => CfgInv'
  BY <1>1, <1>2, <1>3, <1>4, RequestStep, Zenon DEF CreateRemote, UpdateRemote, DeleteRemote
<1>9. CreatePool(r, n) \/ UpdatePool(r, n) \/ DeletePool(r, n) => CfgInv'
  BY <1>1, <1>2, <1>3, <1>4, RequestStep, Zenon DEF CreatePool, UpdatePool, DeletePool
<1>10. CreateChanger(r, n) \/ UpdateChanger(r, n) \/ DeleteChanger(r, n) \/ DeleteDrive(r, n) => CfgInv'
  BY <1>1, <1>2, <1>3, <1>4, RequestStep, Zenon DEF CreateChanger, UpdateChanger, DeleteChanger, DeleteDrive
<1>11. CreateKey(r, n) \/ ChangePassphrase(r, n) \/ DeleteKey(r, n) => CfgInv'
  BY <1>1, <1>2, <1>3, <1>4, RequestStep, Zenon DEF CreateKey, ChangePassphrase, DeleteKey
<1>12. DeleteSyncJob(r, n) \/ DeleteInterface(r, n) => CfgInv'
  BY <1>1, <1>2, <1>3, <1>4, RequestStep, Zenon DEF DeleteSyncJob, DeleteInterface
<1>13. ASSUME NEW m \in CfgNames, CreateSyncJob(r, n, m) \/ UpdateSyncJob(r, n, m) PROVE CfgInv'
  BY <1>1, <1>2, <1>3, <1>4, <1>13, RequestStep, Zenon DEF CreateSyncJob, UpdateSyncJob
<1>14. ASSUME NEW m \in CfgNames \cup {""}, CreateDrive(r, n, m) \/ UpdateDrive(r, n, m) PROVE CfgInv'
  BY <1>1, <1>2, <1>3, <1>4, <1>14, RequestStep, Zenon DEF CreateDrive, UpdateDrive
<1>15. ASSUME NEW k \in {"bridge", "bond"}, NEW m \in CfgNames \cup {""}, NEW gw \in BOOLEAN,
              CreateInterface(r, k, n, m, gw)
       PROVE  CfgInv'
  <2>1. k \in KindNames /\ m \in RefNames /\ "interfaces.new" \in AskedFiles
    BY <1>1, <1>2, <1>3, Zenon
  <2>2. Ask(r, "create", "interfaces.new", k, n, m, gw, NoDigest)
    BY <1>15, Zenon DEF CreateInterface
  <2> QED BY <2>1, <2>2, RequestStep
<1>16. ASSUME NEW k \in {"bridge", "bond", "eth"}, NEW m \in CfgNames \cup {""}, NEW gw \in BOOLEAN,
              UpdateInterface(r, k, n, m, gw)
       PROVE  CfgInv'
  <2>1. "interfaces.new" \in group
    BY <1>16, ConfigAssumption DEF UpdateInterface, CfgInv, CfgTypeOK
  <2>2. k \in KindNames /\ m \in RefNames /\ "interfaces.new" \in AskedFiles
    BY <1>1, <1>2, <1>3, Zenon
  <2>3. PICK d \in Digests("interfaces.new") : Ask(r, "update", "interfaces.new", k, n, m, gw, d)
    BY <1>16, Zenon DEF UpdateInterface
  <2> QED BY <2>1, <2>2, <2>3, RequestStep
<1> QED
  BY <1>5, <1>6, <1>7, <1>8, <1>9, <1>10, <1>11, <1>12, <1>13, <1>14, <1>15, <1>16, Zenon DEF AskStep

(* The new network configuration is applied or dropped.                    *)
LEMMA NetworkStep ==
  ASSUME CfgInv, ~FreeRevert, ReloadNetworkConfig \/ RevertNetworkConfig
  PROVE  CfgInv'
<1>1. CfgTypeOK /\ CfgHolderInv /\ CopyInv
  BY DEF CfgInv
<1>2. "interfaces" \in group /\ "interfaces.new" \in group
  BY <1>1, ConfigAssumption DEF CfgTypeOK, ReloadNetworkConfig, RevertNetworkConfig
<1>3. cfgLock["interfaces.new"] = 0 /\ UNCHANGED <<cfgLock, handler, group>>
  BY DEF ReloadNetworkConfig, RevertNetworkConfig, NetworkIdle
<1>4. NoNewFile \in Contents
  BY EmptyFacts DEF NoNewFile
<1>5. cfg' \in [group -> Contents] /\ \A g \in group : g \notin {"interfaces", "interfaces.new"} => cfg'[g] = cfg[g]
  BY <1>1, <1>2, <1>4 DEF CfgTypeOK, ReloadNetworkConfig, RevertNetworkConfig
<1>6. ASSUME NEW s \in CfgHandlers, handler[s].pc = "save"
      PROVE  Content(handler[s].file)' = Content(handler[s].file)
  <2>1. /\ handler[s].file \in group /\ handler[s].file # "interfaces"
        /\ cfgLock[handler[s].file] = s
    BY <1>1, <1>6 DEF CfgHolderInv, AskedFiles
  <2>2. handler[s].file # "interfaces.new"
    BY <1>3, <2>1, ConfigAssumption
  <2> QED BY <1>3, <1>5, <2>1, <2>2 DEF Content
<1>7. CfgTypeOK' /\ CfgHolderInv'
  BY <1>1, <1>3, <1>5 DEF CfgTypeOK, CfgHolderInv
<1>8. CopyInv'
  BY <1>1, <1>3, <1>6 DEF CopyInv
<1> QED BY <1>7, <1>8 DEF CfgInv

(* Every step keeps the invariant.                                         *)
LEMMA CfgStep ==
  ASSUME ~FreeRevert
  PROVE  CfgInv /\ [CfgNext]_cfgVars => CfgInv'
<1> SUFFICES ASSUME CfgInv, [CfgNext]_cfgVars PROVE CfgInv'
  OBVIOUS
<1>1. ASSUME UNCHANGED cfgVars PROVE CfgInv'
  <2>1. UNCHANGED <<cfg, cfgLock, handler, group>>
    BY <1>1 DEF cfgVars
  <2>2. \A g : Content(g)' = Content(g)
    BY <2>1 DEF Content
  <2> QED BY <2>1, <2>2 DEF CfgInv, CfgTypeOK, CfgHolderInv, CopyInv
<1>2. ASSUME NEW r \in CfgHandlers, NEW n \in CfgNames, AskStep(r, n) PROVE CfgInv'
  BY <1>2, ApiStep
<1>3. ASSUME NEW r \in CfgHandlers, LockConfigTimeout(r) PROVE CfgInv'
  BY <1>3, QuitStep DEF LockConfigTimeout
<1>4. ASSUME NEW r \in CfgHandlers, LockAndChange(r) PROVE CfgInv'
  BY <1>4, LockChangeStep
<1>5. ASSUME NEW r \in CfgHandlers, SaveConfig(r) PROVE CfgInv'
  <2>1. FirstFile(handler[r]) \in {handler[r].file, "tape-keys"}
    BY DEF FirstFile
  <2>2. /\ handler[r].pc \in {"save", "after"} /\ Save(FirstFile(handler[r]), handler[r]) /\ UNCHANGED group
        /\ EndHandler(r) \/ (handler' = [handler EXCEPT ![r].pc = "after"] /\ UNCHANGED cfgLock)
    BY <1>5, Zenon DEF SaveConfig
  <2> QED BY <2>1, <2>2, SaveStep
<1>6. ASSUME NEW r \in CfgHandlers, AfterSave(r) PROVE CfgInv'
  <2>1. FirstFile(handler[r]) = handler[r].file \/ FirstFile(handler[r]) = "tape-keys"
    BY DEF FirstFile
  <2>2. SecondFile(handler[r]) = "" \/ SecondFile(handler[r]) \in {handler[r].file, "tape-keys"}
    BY Zenon DEF SecondFile
  <2>3. /\ handler[r].pc \in {"save", "after"} /\ UNCHANGED group /\ EndHandler(r)
        /\ UNCHANGED cfg \/ \E f \in {handler[r].file, "tape-keys"} : Save(f, handler[r])
    BY <1>6, <2>2, Zenon DEF AfterSave
  <2> QED BY <2>3, SaveStep
<1>7. ReloadNetworkConfig \/ RevertNetworkConfig => CfgInv'
  BY NetworkStep
<1>8. CfgCrash => CfgInv'
  BY QuitStep DEF CfgCrash
<1> QED BY <1>1, <1>2, <1>3, <1>4, <1>5, <1>6, <1>7, <1>8 DEF CfgNext

(* The first sections.                                                     *)
LEMMA CfgStart == CfgInit => CfgInv
<1> SUFFICES ASSUME CfgInit PROVE CfgInv
  OBVIOUS
<1> USE EmptyFacts
<1>1. PICK more \in BOOLEAN :
        cfg = [f \in group |-> IF f = "interfaces.new" THEN NoNewFile
                               ELSE [n \in CfgNames |-> FirstSection(f, n, more)]]
  BY DEF CfgInit
<1>2. \A k \in KindNames : [NoSection EXCEPT !.kind = k] \in SectionType
  BY DEF SectionType
<1>3. \A f : FirstKind(f) \in KindNames
  <2>1. \A f : FirstKind(f) \in {f} \cup {"changer", "backup", "pool", "key"}
    BY DEF FirstKind
  <2>2. \A f : FirstKind(f) = f =>
                f \in {"datastore", "sync", "verification", "remote", "changer", "backup", "pool", "key"}
    BY DEF FirstKind
  <2> QED BY <2>1, <2>2, Zenon DEF KindNames
<1>4. \A f, n : FirstSection(f, n, more) \in SectionType
  <2>1. "eth" \in KindNames /\ "bridge" \in KindNames /\ "a" \in RefNames
    BY Zenon DEF KindNames, RefNames
  <2>2. [NoSection EXCEPT !.kind = "bridge", !.ref = "a"] \in SectionType
    BY <2>1 DEF SectionType
  <2> QED BY <1>2, <1>3, <2>1, <2>2 DEF FirstSection
<1>5. cfg \in [group -> Contents]
  <2>1. \A f : [n \in CfgNames |-> FirstSection(f, n, more)] \in Contents
    BY <1>4 DEF Contents
  <2>2. NoNewFile \in Contents
    BY DEF NoNewFile
  <2> QED BY <1>1, <2>1, <2>2
<1>6. handler \in [CfgHandlers -> HandlerType] /\ \A r \in CfgHandlers : handler[r] = NoHandler
  BY DEF CfgInit
<1>7. CfgTypeOK
  BY <1>5, <1>6 DEF CfgTypeOK, CfgInit
<1> QED BY <1>6, <1>7 DEF CfgInv, CfgHolderInv, CopyInv

(* A handler that saves a configuration file changes its own section and   *)
(* nothing else, and the file is still the one whose digest the client     *)
(* gave, for any number of handlers, files and sections: the lock keeps    *)
(* every change of another handler (src/api2/config/), as long as the      *)
(* network configuration is not applied or reverted, which takes no lock,  *)
(* in the middle of a change of it.                                        *)
THEOREM UpdatesAreKept ==
  ASSUME ~FreeRevert
  PROVE  CfgSpec => ConfigUpdatesKept
<1> DEFINE Kept == \A r \in CfgHandlers :
             handler[r].pc = "save" /\ handler'[r].pc # "save" /\ cfg' # cfg =>
               LET q == handler[r] f == FirstFile(q)
               IN  /\ \A n \in CfgNames \ {q.name} : cfg'[f][n] = Content(f)[n]
                   /\ q.seen # NoDigest => q.seen = Content(q.file)
<1>1. CfgInv /\ [CfgNext]_cfgVars => [Kept]_cfgVars
  <2> SUFFICES ASSUME CfgInv, CfgNext, NEW r \in CfgHandlers,
                      handler[r].pc = "save", handler'[r].pc # "save", cfg' # cfg
               PROVE  /\ \A n \in CfgNames \ {handler[r].name} :
                           cfg'[FirstFile(handler[r])][n] = Content(FirstFile(handler[r]))[n]
                      /\ handler[r].seen # NoDigest => handler[r].seen = Content(handler[r].file)
    OBVIOUS
  <2>1. CfgTypeOK /\ CfgHolderInv /\ CopyInv
    BY DEF CfgInv
  <2>2. SaveConfig(r)
    <3>1. ASSUME NEW s \in CfgHandlers, NEW n \in CfgNames, AskStep(s, n) PROVE FALSE
      <4>1. UNCHANGED cfg
        BY <3>1, Zenon DEF AskStep, Ask, Create, Update, Delete, CreateDatastore, UpdateDatastore, DeleteDatastore,
           CreateVerificationJob, UpdateVerificationJob, DeleteVerificationJob, CreateTapeBackupJob,
           UpdateTapeBackupJob, DeleteTapeBackupJob, CreateRemote, UpdateRemote, DeleteRemote, CreatePool,
           UpdatePool, DeletePool, CreateChanger, UpdateChanger, DeleteChanger, DeleteDrive, CreateKey,
           ChangePassphrase, DeleteKey, DeleteSyncJob, DeleteInterface, CreateSyncJob, UpdateSyncJob,
           CreateDrive, UpdateDrive, CreateInterface, UpdateInterface
      <4> QED BY <4>1
    <3>2. ASSUME NEW s \in CfgHandlers, LockConfigTimeout(s) \/ LockAndChange(s) PROVE FALSE
      BY <3>2 DEF LockConfigTimeout, LockAndChange
    <3>3. ~ReloadNetworkConfig /\ ~RevertNetworkConfig /\ ~CfgCrash
      BY DEF ReloadNetworkConfig, RevertNetworkConfig, CfgCrash
    <3>4. ASSUME NEW s \in CfgHandlers, SaveConfig(s) \/ AfterSave(s) PROVE s = r /\ SaveConfig(r)
      <4>1. s = r
        <5>1. PICK h : handler' = [handler EXCEPT ![s] = h]
          BY <3>4, Zenon DEF SaveConfig, AfterSave, EndHandler
        <5> QED BY <2>1, <5>1 DEF CfgTypeOK
      <4>2. ~AfterSave(r)
        BY Zenon DEF AfterSave
      <4> QED BY <3>4, <4>1, <4>2
    <3> QED BY <3>1, <3>2, <3>3, <3>4 DEF CfgNext
  <2> DEFINE q == handler[r]
             f == FirstFile(q)
  <2>3. /\ q \in HandlerType /\ q.file \in group /\ q.file \in AskedFiles /\ q.name \in CfgNames
        /\ Save(f, q)
    BY <2>1, <2>2, Zenon DEF CfgTypeOK, CfgHolderInv, SaveConfig
  <2>4. f = q.file \/ f = "tape-keys"
    BY DEF FirstFile
  <2> HIDE DEF f
  <2>5. /\ \A g \in group : g # f => cfg'[g] = cfg[g]
        /\ f \in group /\ f # "tape-keys" => cfg'[f] = q.copy
        /\ f \in group /\ f = "tape-keys" => \A n \in CfgNames \ {q.name} : cfg'[f][n] = cfg[f][n]
        /\ cfg' \in [group -> Contents]
    BY <2>1, <2>3, SaveFacts
  <2>6. f \in group
    BY <2>1, <2>5 DEF CfgTypeOK
  <2>7. \A n \in CfgNames \ {q.name} : cfg'[f][n] = Content(f)[n]
    <3>1. CASE f = "tape-keys"
      BY <2>5, <2>6, <3>1 DEF Content
    <3>2. CASE f # "tape-keys"
      BY <2>1, <2>4, <2>5, <2>6, <3>2 DEF CopyInv
    <3> QED BY <3>1, <3>2
  <2>8. q.seen # NoDigest => q.seen = Content(q.file)
    BY <2>1 DEF CopyInv
  <2> QED BY <2>7, <2>8 DEF f
<1>2. CfgInv /\ [CfgNext]_cfgVars => CfgInv'
  BY CfgStep
<1>3. ConfigUpdatesKept <=> [][Kept]_cfgVars
  BY DEF ConfigUpdatesKept
<1> HIDE DEF Kept
<1> QED BY <1>1, <1>2, <1>3, CfgStart, PTL DEF CfgSpec
-----------------------------------------------------------------------------
(* AccessControl.                                                          *)

UserSection == [exists : BOOLEAN, enable : BOOLEAN, expire : Nat]
UsersType == [Ids -> UserSection]
LineType == [propagate : BOOLEAN, path : AcPaths, ug : SUBSET Ids, roles : SUBSET Roles]
AclType == SUBSET LineType
UserData == UsersType \cup {NoFile}   \* what is in memory, before the file has been read too
WhoType == Ids \cup {""}
CheckPcs == {"idle", "user", "user-load", "user-keep", "acl", "acl-load", "acl-keep", "info", "decide"}
CheckType == [pc : CheckPcs, who : WhoType, now : Nat, seen : Nat, user : UserData, acl : AclType]
CachedType == [kept : BOOLEAN, data : UserData \cup AclType, mtime : Nat]
InfoType == [kept : BOOLEAN, data : [user : UserData, acl : AclType], last : Nat]

AcTypeOK ==
  /\ acFile \in [user : UsersType, acl : AclType] /\ mtime \in [user : Nat, acl : Nat]
  /\ check \in [DOMAIN check -> CheckType]
  /\ cached \in [CacheFiles -> CachedType] /\ info \in InfoType
  /\ acClock \in Nat /\ lost \in [CacheFiles -> [Ids -> Int]] /\ stale \in Int

(* Whom the file lets in has lost nothing.                                 *)
HeldInv == \A f \in CacheFiles, a \in Ids : Grants(f, acFile[f], a, acClock) => lost[f][a] = Held

(* What is kept of a file under the time that the file has is what the     *)
(* file says.                                                              *)
GoodCached(f, e) == e.mtime <= mtime[f] /\ (e.kept /\ e.mtime = mtime[f] => e.data = acFile[f])

(* Data of a file that, at the time now, grants nothing which the file has *)
(* ceased to grant before the time t; losses is lost.                      *)
GoodSince(f, data, t, losses, now) ==
  /\ f = "user" => data \in UsersType
  /\ \A a \in Ids : Grants(f, data, a, now) => losses[f][a] = Held \/ losses[f][a] >= t

(* Where a request has read the data of a file itself.                     *)
HasRead(f) == IF f = "user" THEN {"user-keep", "acl", "acl-load", "acl-keep", "info"} ELSE {"acl-keep", "info"}

(* A request that is being checked: what it has read for a time that the   *)
(* file still has is what the file says, and its data is good since it     *)
(* came in, or is as old as the cache may be.                              *)
GoodCheck(q) ==
  /\ q.now <= acClock /\ (q.pc # "idle" => q.who \in Ids)
  /\ \A f \in CacheFiles :
       /\ q.pc \in {Loading(f), Keeping(f)} => q.seen <= mtime[f]
       /\ q.pc = Keeping(f) /\ q.seen = mtime[f] => q[f] = acFile[f]
       /\ q.pc \in HasRead(f) => GoodSince(f, q[f], q.now, lost, acClock)
       /\ q.pc = "decide" => GoodSince(f, q[f], q.now - CacheTime + 1, lost, acClock)

GoodInfo(i) ==
  i.last <= acClock /\ \A f \in CacheFiles : i.kept => GoodSince(f, i.data[f], i.last, lost, acClock)

AcInv ==
  /\ AcTypeOK /\ HeldInv /\ RightsAreFresh /\ GoodInfo(info)
  /\ \A f \in CacheFiles : GoodCached(f, cached[f])
  /\ \A r \in DOMAIN check : GoodCheck(check[r])

(* Time takes rights, and gives none.                                      *)
LEMMA GrantsFade ==
  ASSUME NEW f \in CacheFiles, NEW d, f = "user" => d \in UsersType, NEW a \in Ids, NEW n \in Nat,
         Grants(f, d, a, n + 1)
  PROVE  Grants(f, d, a, n)
<1>1. OwnerOf(a) \in Ids
  BY AccessAssumption DEF OwnerOf, Ids, IsApiToken
<1>2. CASE f = "user"
  <2>1. d[a] \in UserSection /\ d[OwnerOf(a)] \in UserSection
    BY <1>1, <1>2 DEF UsersType
  <2>2. \A s \in UserSection : ActiveSection(s, n + 1) => ActiveSection(s, n)
    BY DEF UserSection, ActiveSection
  <2> QED BY <1>2, <2>1, <2>2 DEF Grants, IsActiveAuthId
<1>3. CASE f # "user"
  BY <1>3 DEF Grants
<1> QED BY <1>2, <1>3

(* What the file itself says is good since any time.                       *)
LEMMA FileIsGood ==
  ASSUME AcInv, NEW f \in CacheFiles, NEW t
  PROVE  GoodSince(f, acFile[f], t, lost, acClock)
BY DEF AcInv, AcTypeOK, HeldInv, GoodSince

(* Good data is good since an earlier time, too.                           *)
LEMMA GoodSinceEarlier ==
  ASSUME AcInv, NEW f \in CacheFiles, NEW d, NEW t \in Int, NEW u \in Int, u <= t,
         GoodSince(f, d, t, lost, acClock)
  PROVE  GoodSince(f, d, u, lost, acClock)
<1>1. \A a \in Ids : lost[f][a] \in Int
  BY DEF AcInv, AcTypeOK
<1> QED BY <1>1 DEF GoodSince

(* It stays good when rights are lost now, and when time goes on.          *)
LEMMA GoodSinceKept ==
  ASSUME AcInv, Observe, acClock' \in {acClock, acClock + 1},
         NEW f \in CacheFiles, NEW d, NEW t \in Int, t <= acClock, GoodSince(f, d, t, lost, acClock)
  PROVE  GoodSince(f, d, t, lost', acClock')
<1>1. acClock \in Nat /\ acClock' \in Nat /\ acClock' >= t /\ \A a \in Ids : lost[f][a] \in Int
  BY DEF AcInv, AcTypeOK
<1>2. ASSUME NEW a \in Ids, Grants(f, d, a, acClock') PROVE lost'[f][a] = Held \/ lost'[f][a] >= t
  <2>1. Grants(f, d, a, acClock)
    BY <1>1, <1>2, GrantsFade DEF GoodSince
  <2>2. lost[f][a] = Held \/ lost[f][a] >= t
    BY <2>1 DEF GoodSince
  <2>3. lost'[f][a] = Held \/ lost'[f][a] = acClock' \/ (lost[f][a] # Held /\ lost'[f][a] = lost[f][a])
    BY DEF Observe
  <2> QED BY <1>1, <2>2, <2>3
<1> QED BY <1>2 DEF GoodSince

(* No request, and the values a request may have.                          *)
LEMMA NoCheckFacts ==
  /\ NoCheck \in CheckType /\ NoCheck.pc = "idle" /\ NoCheck.now = 0
  /\ NoFile \in UserData /\ NoFile \in AclType
<1>1. NoFile \in UserData /\ NoFile \in AclType
  BY DEF UserData, AclType, NoFile
<1>2. "" \in WhoType
  BY Zenon DEF WhoType
<1>3. NoCheck \in CheckType /\ NoCheck.pc = "idle" /\ NoCheck.now = 0
  BY <1>1, <1>2 DEF NoCheck, CheckType, CheckPcs
<1> QED BY <1>1, <1>3

(* A step of a request: what it leaves has to be good, and so have the     *)
(* caches.                                                                 *)
LEMMA CheckKeepsInv ==
  ASSUME AcInv, NEW r \in DOMAIN check, NEW q \in CheckType, GoodCheck(q), SetCheck(r, q),
         UNCHANGED <<acFile, mtime, acClock, lost>>,
         NEW c \in [CacheFiles -> CachedType], \A f \in CacheFiles : GoodCached(f, c[f]), cached' = c,
         NEW i \in InfoType, GoodInfo(i), info' = i,
         stale' \in Int, stale' < CacheTime
  PROVE  AcInv'
<1>1. /\ AcTypeOK /\ HeldInv /\ \A s \in DOMAIN check : GoodCheck(check[s])
  BY DEF AcInv
<1>2. /\ DOMAIN check' = DOMAIN check /\ check' \in [DOMAIN check -> CheckType]
      /\ check'[r] = q /\ \A s \in DOMAIN check : s # r => check'[s] = check[s]
  BY <1>1 DEF AcTypeOK, SetCheck
<1>3. AcTypeOK' /\ HeldInv' /\ RightsAreFresh'
  BY <1>1, <1>2 DEF AcTypeOK, HeldInv, RightsAreFresh
<1>4. \A s \in DOMAIN check : GoodCheck(check'[s])
  BY <1>1, <1>2
<1>5. \A s \in DOMAIN check' : GoodCheck(check[s])'
  BY <1>2, <1>4 DEF GoodCheck
<1>6. GoodInfo(info)' /\ \A f \in CacheFiles : GoodCached(f, cached[f])'
  BY DEF GoodInfo, GoodCached
<1> QED BY <1>3, <1>5, <1>6 DEF AcInv

(* The same, when the caches stay as they are.                             *)
LEMMA CheckKeepsCaches ==
  ASSUME AcInv, NEW r \in DOMAIN check, NEW q \in CheckType, GoodCheck(q), SetCheck(r, q),
         UNCHANGED <<acFile, mtime, cached, info, acClock, lost, stale>>
  PROVE  AcInv'
<1>1. /\ cached \in [CacheFiles -> CachedType] /\ \A f \in CacheFiles : GoodCached(f, cached[f])
      /\ info \in InfoType /\ GoodInfo(info) /\ stale \in Int /\ stale < CacheTime
  BY DEF AcInv, AcTypeOK, RightsAreFresh
<1> QED BY <1>1, CheckKeepsInv

(* A request comes in.                                                     *)
LEMMA HandleStep ==
  ASSUME AcInv, NEW r \in DOMAIN check, NEW a \in Callers, HandleRequest(r, a)
  PROVE  AcInv'
<1> DEFINE fresh == InfoIsFresh(acClock)
           q == [NoCheck EXCEPT !.who = a, !.now = acClock, !.pc = IF fresh THEN "decide" ELSE "user",
                   !.user = IF fresh THEN info.data.user ELSE NoFile,
                   !.acl = IF fresh THEN info.data.acl ELSE NoFile]
<1>1. SetCheck(r, q) /\ UNCHANGED <<acFile, mtime, cached, info, acClock, lost, stale>>
  BY DEF HandleRequest
<1>2. /\ a \in Ids /\ a \in WhoType /\ acClock \in Nat /\ info \in InfoType
      /\ info.data.user \in UserData /\ info.data.acl \in AclType /\ info.last \in Nat
      /\ CacheTime \in Nat /\ fresh \in BOOLEAN /\ GoodInfo(info)
  BY AccessAssumption DEF AcInv, AcTypeOK, InfoType, WhoType, Ids, InfoIsFresh
<1>3. fresh => info.kept /\ info.last >= acClock - CacheTime + 1
  BY <1>2 DEF InfoIsFresh
<1> HIDE DEF fresh
<1>4. /\ q \in CheckType /\ q.who = a /\ q.now = acClock /\ q.pc = IF fresh THEN "decide" ELSE "user"
      /\ fresh => q.user = info.data.user /\ q.acl = info.data.acl
  BY <1>2, NoCheckFacts DEF CheckType, CheckPcs
<1> HIDE DEF q
<1>5. ASSUME NEW f \in CacheFiles, fresh PROVE GoodSince(f, q[f], q.now - CacheTime + 1, lost, acClock)
  <2>1. q[f] = info.data[f] /\ GoodSince(f, info.data[f], info.last, lost, acClock)
    BY <1>2, <1>3, <1>4, <1>5 DEF CacheFiles, GoodInfo
  <2> QED BY <1>2, <1>3, <1>4, <1>5, <2>1, GoodSinceEarlier
<1>6. GoodCheck(q)
  BY <1>2, <1>4, <1>5 DEF GoodCheck, CacheFiles, Loading, Keeping, HasRead
<1> QED BY <1>1, <1>4, <1>6, CheckKeepsCaches

(* A request that has read the data of a file.                             *)
WithData(c, pc, f, d) == [c EXCEPT !.pc = pc, ![f] = d]

(* The other fields stay.                                                  *)
LEMMA ReadFields ==
  ASSUME NEW c \in CheckType, NEW f \in CacheFiles, NEW pc \in CheckPcs, NEW d,
         f = "user" => d \in UserData, f = "acl" => d \in AclType, NEW q, q = WithData(c, pc, f, d)
  PROVE  /\ q \in CheckType /\ q.pc = pc /\ q[f] = d /\ q.now = c.now /\ q.who = c.who /\ q.seen = c.seen
         /\ \A g \in CacheFiles : g # f => q[g] = c[g]
<1>1. CASE f = "user"
  BY <1>1 DEF CheckType, CacheFiles, WithData
<1>2. CASE f = "acl"
  BY <1>2 DEF CheckType, CacheFiles, WithData
<1> QED BY <1>1, <1>2 DEF CacheFiles

(* It has examined a file, or read it.                                     *)
LEMMA ReadStep ==
  ASSUME AcInv, NEW r \in DOMAIN check, NEW f \in CacheFiles, CachedConfig(r, f) \/ LoadConfig(r, f)
  PROVE  AcInv'
<1>1. /\ check[r] \in CheckType /\ GoodCheck(check[r]) /\ acClock \in Nat
      /\ acFile.user \in UserData /\ acFile.acl \in AclType /\ mtime[f] \in Nat
      /\ check[r].now \in Nat /\ check[r].seen \in Nat
  BY DEF AcInv, AcTypeOK, UserData, CheckType, CacheFiles
<1>2. UNCHANGED <<acFile, mtime, cached, info, acClock, lost, stale>>
  BY DEF CachedConfig, LoadConfig
<1>3. f = "user" \/ f = "acl"
  BY DEF CacheFiles
<1>4. \A t : GoodSince(f, acFile[f], t, lost, acClock)
  BY FileIsGood
<1>5. /\ f = "user" => acFile[f] \in UserData
      /\ f = "acl" => acFile[f] \in AclType
  BY <1>1
<1>6. CASE CachedConfig(r, f) /\ cached[f].kept /\ cached[f].mtime = mtime[f]
  <2> DEFINE q == WithData(check[r], After(f), f, cached[f].data)
  <2>1. check[r].pc = f /\ SetCheck(r, q)
    BY <1>6 DEF CachedConfig, WithData
  <2>2. cached[f].data = acFile[f] /\ After(f) \in CheckPcs
    BY <1>3, <1>6 DEF AcInv, GoodCached, After, CheckPcs
  <2>3. /\ q \in CheckType /\ q.pc = After(f) /\ q[f] = acFile[f] /\ q.now = check[r].now
        /\ q.who = check[r].who /\ \A g \in CacheFiles : g # f => q[g] = check[r][g]
    BY <1>1, <1>5, <2>2, ReadFields
  <2> HIDE DEF q
  <2>4. CASE f = "user"
    <3>1. q.pc = "acl" /\ q.user = acFile.user /\ GoodSince("user", q.user, q.now, lost, acClock)
      BY <1>4, <2>3, <2>4 DEF After
    <3>2. GoodCheck(q)
      BY <1>1, <2>1, <2>3, <2>4, <3>1 DEF GoodCheck, CacheFiles, Loading, Keeping, HasRead
    <3> QED BY <1>2, <2>1, <2>3, <3>2, CheckKeepsCaches
  <2>5. CASE f = "acl"
    <3>1. /\ q.pc = "info" /\ q.acl = acFile.acl /\ GoodSince("acl", q.acl, q.now, lost, acClock)
          /\ q.user = check[r].user /\ GoodSince("user", q.user, q.now, lost, acClock)
      BY <1>1, <1>4, <2>1, <2>3, <2>5 DEF After, GoodCheck, CacheFiles, HasRead
    <3>2. GoodCheck(q)
      BY <1>1, <2>1, <2>3, <2>5, <3>1 DEF GoodCheck, CacheFiles, Loading, Keeping, HasRead
    <3> QED BY <1>2, <2>1, <2>3, <3>2, CheckKeepsCaches
  <2> QED BY <1>3, <2>4, <2>5
<1>7. CASE CachedConfig(r, f) /\ ~(cached[f].kept /\ cached[f].mtime = mtime[f])
  <2> DEFINE q == [check[r] EXCEPT !.pc = Loading(f), !.seen = mtime[f]]
  <2>1. check[r].pc = f /\ SetCheck(r, q)
    BY <1>7 DEF CachedConfig
  <2>2. Loading(f) \in CheckPcs
    BY <1>3 DEF Loading, CheckPcs
  <2>3. /\ q \in CheckType /\ q.pc = Loading(f) /\ q.seen = mtime[f] /\ q.now = check[r].now
        /\ q.who = check[r].who /\ q.user = check[r].user /\ q.acl = check[r].acl
    BY <1>1, <2>2 DEF CheckType
  <2> HIDE DEF q
  <2>4. GoodCheck(q)
    BY <1>1, <1>3, <2>1, <2>3 DEF GoodCheck, CacheFiles, Loading, Keeping, HasRead
  <2> QED BY <1>2, <2>1, <2>3, <2>4, CheckKeepsCaches
<1>8. CASE LoadConfig(r, f)
  <2> DEFINE q == WithData(check[r], Keeping(f), f, acFile[f])
  <2>1. check[r].pc = Loading(f) /\ SetCheck(r, q)
    BY <1>8 DEF LoadConfig, WithData
  <2>2. Keeping(f) \in CheckPcs
    BY <1>3 DEF Keeping, CheckPcs
  <2>3. /\ q \in CheckType /\ q.pc = Keeping(f) /\ q[f] = acFile[f] /\ q.now = check[r].now
        /\ q.who = check[r].who /\ q.seen = check[r].seen /\ \A g \in CacheFiles : g # f => q[g] = check[r][g]
    BY <1>1, <1>5, <2>2, ReadFields
  <2> HIDE DEF q
  <2>4. CASE f = "user"
    <3>1. /\ q.pc = "user-keep" /\ q.user = acFile.user /\ q.seen <= mtime.user
          /\ GoodSince("user", q.user, q.now, lost, acClock)
      BY <1>1, <1>4, <2>1, <2>3, <2>4 DEF Keeping, Loading, GoodCheck, CacheFiles
    <3>2. GoodCheck(q)
      BY <1>1, <2>1, <2>3, <2>4, <3>1 DEF GoodCheck, CacheFiles, Loading, Keeping, HasRead
    <3> QED BY <1>2, <2>1, <2>3, <3>2, CheckKeepsCaches
  <2>5. CASE f = "acl"
    <3>1. /\ q.pc = "acl-keep" /\ q.acl = acFile.acl /\ q.seen <= mtime.acl
          /\ GoodSince("acl", q.acl, q.now, lost, acClock)
          /\ q.user = check[r].user /\ GoodSince("user", q.user, q.now, lost, acClock)
      BY <1>1, <1>4, <2>1, <2>3, <2>5 DEF Keeping, Loading, GoodCheck, CacheFiles, HasRead
    <3>2. GoodCheck(q)
      BY <1>1, <2>1, <2>3, <2>5, <3>1 DEF GoodCheck, CacheFiles, Loading, Keeping, HasRead
    <3> QED BY <1>2, <2>1, <2>3, <3>2, CheckKeepsCaches
  <2> QED BY <1>3, <2>4, <2>5
<1> QED BY <1>6, <1>7, <1>8

(* What has been read of a file is kept.                                   *)
LEMMA KeepStep ==
  ASSUME AcInv, NEW r \in DOMAIN check, NEW f \in CacheFiles, KeepConfig(r, f)
  PROVE  AcInv'
<1> DEFINE q == [check[r] EXCEPT !.pc = After(f), !.seen = 0]
           e == [kept |-> TRUE, data |-> check[r][f], mtime |-> check[r].seen]
           c == [cached EXCEPT ![f] = e]
<1>1. /\ check[r] \in CheckType /\ GoodCheck(check[r]) /\ acClock \in Nat /\ mtime[f] \in Nat
      /\ info \in InfoType /\ GoodInfo(info) /\ stale \in Int /\ stale < CacheTime
      /\ cached \in [CacheFiles -> CachedType] /\ \A g \in CacheFiles : GoodCached(g, cached[g])
  BY DEF AcInv, AcTypeOK, RightsAreFresh, CacheFiles
<1>2. /\ check[r].pc = Keeping(f) /\ SetCheck(r, q) /\ cached' = c
      /\ UNCHANGED <<acFile, mtime, info, acClock, lost, stale>>
  BY DEF KeepConfig
<1>3. f = "user" \/ f = "acl"
  BY DEF CacheFiles
<1>4. e \in CachedType
  BY <1>1, <1>3 DEF CheckType, CachedType
<1>5. GoodCached(f, e)
  BY <1>1, <1>2 DEF GoodCheck, GoodCached
<1> HIDE DEF e
<1>6. c \in [CacheFiles -> CachedType] /\ \A g \in CacheFiles : GoodCached(g, c[g])
  BY <1>1, <1>4, <1>5
<1> HIDE DEF c
<1>7. After(f) \in CheckPcs
  BY <1>3 DEF After, CheckPcs
<1>8. /\ q \in CheckType /\ q.pc = After(f) /\ q.now = check[r].now /\ q.who = check[r].who
      /\ q.user = check[r].user /\ q.acl = check[r].acl
  BY <1>1, <1>7 DEF CheckType
<1> HIDE DEF q
<1>9. GoodCheck(q)
  BY <1>1, <1>2, <1>3, <1>8 DEF GoodCheck, CacheFiles, Loading, Keeping, HasRead, After
<1> QED BY <1>1, <1>2, <1>6, <1>8, <1>9, CheckKeepsInv

(* The CachedUserInfo is kept.                                             *)
LEMMA KeepInfoStep ==
  ASSUME AcInv, NEW r \in DOMAIN check, KeepInfo(r)
  PROVE  AcInv'
<1> DEFINE q == [check[r] EXCEPT !.pc = "decide"]
           i == [kept |-> TRUE, data |-> [user |-> check[r].user, acl |-> check[r].acl], last |-> check[r].now]
<1>1. /\ check[r] \in CheckType /\ GoodCheck(check[r]) /\ acClock \in Nat /\ check[r].now \in Nat
      /\ check[r].user \in UserData /\ check[r].acl \in AclType
      /\ stale \in Int /\ stale < CacheTime /\ CacheTime \in Nat \ {0}
      /\ cached \in [CacheFiles -> CachedType] /\ \A g \in CacheFiles : GoodCached(g, cached[g])
  BY AccessAssumption DEF AcInv, AcTypeOK, RightsAreFresh, CheckType
<1>2. /\ check[r].pc = "info" /\ SetCheck(r, q) /\ info' = i
      /\ UNCHANGED <<acFile, mtime, cached, acClock, lost, stale>>
  BY DEF KeepInfo, UpdatedAt
<1>3. \A f \in CacheFiles : GoodSince(f, check[r][f], check[r].now, lost, acClock)
  BY <1>1, <1>2 DEF GoodCheck, CacheFiles, HasRead
<1>4. i \in InfoType
  BY <1>1 DEF InfoType
<1>5. GoodInfo(i)
  BY <1>1, <1>3 DEF GoodInfo, GoodCheck, CacheFiles
<1> HIDE DEF i
<1>6. /\ q \in CheckType /\ q.pc = "decide" /\ q.now = check[r].now /\ q.who = check[r].who
      /\ q.user = check[r].user /\ q.acl = check[r].acl
  BY <1>1 DEF CheckType, CheckPcs
<1> HIDE DEF q
<1>7. \A f \in CacheFiles : GoodSince(f, q[f], q.now - CacheTime + 1, lost, acClock)
  <2>1. check[r].now - CacheTime + 1 \in Int /\ check[r].now - CacheTime + 1 <= check[r].now
    BY <1>1
  <2>2. \A f \in CacheFiles : q[f] = check[r][f]
    BY <1>6 DEF CacheFiles
  <2> QED BY <1>1, <1>3, <1>6, <2>1, <2>2, GoodSinceEarlier
<1>8. GoodCheck(q)
  BY <1>1, <1>2, <1>6, <1>7 DEF GoodCheck, CacheFiles, Loading, Keeping, HasRead
<1> QED BY <1>1, <1>2, <1>4, <1>5, <1>6, <1>8, CheckKeepsInv

(* The request is admitted, or refused.                                    *)
LEMMA DecideStep ==
  ASSUME AcInv, NEW r \in DOMAIN check, Decide(r)
  PROVE  AcInv'
<1> DEFINE q == check[r]
           config == [user |-> q.user, acl |-> q.acl]
<1>1. /\ q \in CheckType /\ GoodCheck(q) /\ acClock \in Nat /\ q.now \in Nat /\ HeldInv
      /\ info \in InfoType /\ GoodInfo(info) /\ CacheTime \in Nat \ {0}
      /\ stale \in Int /\ stale < CacheTime
      /\ cached \in [CacheFiles -> CachedType] /\ \A g \in CacheFiles : GoodCached(g, cached[g])
      /\ lost \in [CacheFiles -> [Ids -> Int]]
  BY AccessAssumption DEF AcInv, AcTypeOK, RightsAreFresh, CheckType
<1>2. /\ q.pc = "decide" /\ SetCheck(r, NoCheck)
      /\ stale' = IF MayAudit(config, q.who, acClock) THEN Longest(stale, q.who, q.now) ELSE stale
      /\ UNCHANGED <<acFile, mtime, cached, info, acClock, lost>>
  BY DEF Decide
<1>3. q.who \in Ids /\ \A f \in CacheFiles : GoodSince(f, q[f], q.now - CacheTime + 1, lost, acClock)
  BY <1>1, <1>2 DEF GoodCheck
<1>4. NoCheck \in CheckType /\ GoodCheck(NoCheck)
  BY <1>1, NoCheckFacts DEF GoodCheck, Loading, Keeping, HasRead
<1>5. ASSUME MayAudit(config, q.who, acClock)
      PROVE  Longest(stale, q.who, q.now) \in Int /\ Longest(stale, q.who, q.now) < CacheTime
  <2>1. \A f \in CacheFiles : Grants(f, q[f], q.who, acClock)
    BY <1>5 DEF MayAudit, CheckAuth, Grants, CacheFiles
  <2>2. \A f \in CacheFiles : lost[f][q.who] = Held \/ lost[f][q.who] >= q.now - CacheTime + 1
    BY <1>3, <2>1 DEF GoodSince
  <2>3. \A f \in CacheFiles : Since(f, q.who, q.now) \in Int /\ Since(f, q.who, q.now) < CacheTime
    BY <1>1, <1>3, <2>2 DEF Since
  <2>4. "user" \in CacheFiles /\ "acl" \in CacheFiles
    BY DEF CacheFiles
  <2> QED BY <1>1, <2>3, <2>4 DEF Longest
<1>6. stale' \in Int /\ stale' < CacheTime
  BY <1>1, <1>2, <1>5
<1> QED BY <1>1, <1>2, <1>4, <1>6, CheckKeepsInv

(* A step that saves a file, or lets time go on.                           *)
LEMMA ChangeKeepsInv ==
  ASSUME AcInv, Observe, UNCHANGED <<check, stale>>, acClock' \in {acClock, acClock + 1},
         acFile' \in [user : UsersType, acl : AclType], mtime' \in [user : Nat, acl : Nat],
         \A f \in CacheFiles : \/ acFile'[f] = acFile[f] /\ mtime'[f] = mtime[f]
                               \/ mtime'[f] = mtime[f] + 1,
         Refreshed \/ UNCHANGED <<cached, info>>
  PROVE  AcInv'
<1>1. /\ AcTypeOK /\ HeldInv /\ GoodInfo(info) /\ RightsAreFresh
      /\ \A f \in CacheFiles : GoodCached(f, cached[f])
      /\ \A r \in DOMAIN check : GoodCheck(check[r])
  BY DEF AcInv
<1>2. /\ acClock \in Nat /\ acClock' \in Nat /\ acClock <= acClock' /\ CacheTime \in Nat
      /\ \A f \in CacheFiles : mtime[f] \in Nat /\ mtime'[f] \in Nat /\ mtime[f] <= mtime'[f]
  BY <1>1, AccessAssumption DEF AcTypeOK, CacheFiles
<1>3. \/ UNCHANGED <<cached, info>>
      \/ /\ info' = [kept |-> TRUE, data |-> acFile, last |-> acClock]
         /\ cached' = [f \in CacheFiles |-> [kept |-> TRUE, data |-> acFile[f], mtime |-> mtime[f]]]
  BY DEF Refreshed
<1>4. info' \in InfoType
  <2>1. acFile \in [user : UserData, acl : AclType] /\ info \in InfoType
    BY <1>1 DEF AcTypeOK, UserData
  <2>2. CASE info' = [kept |-> TRUE, data |-> acFile, last |-> acClock]
    BY <1>2, <2>1, <2>2 DEF InfoType
  <2> QED BY <1>3, <2>1, <2>2
<1>5. cached' \in [CacheFiles -> CachedType]
  <2>1. \A f \in CacheFiles : acFile[f] \in UserData \cup AclType
    BY <1>1 DEF AcTypeOK, UserData, CacheFiles
  <2>2. CASE cached' = [f \in CacheFiles |-> [kept |-> TRUE, data |-> acFile[f], mtime |-> mtime[f]]]
    <3>1. \A f \in CacheFiles : [kept |-> TRUE, data |-> acFile[f], mtime |-> mtime[f]] \in CachedType
      BY <1>2, <2>1 DEF CachedType
    <3> QED BY <2>2, <3>1
  <2> QED BY <1>1, <1>3, <2>2 DEF AcTypeOK
<1>6. lost' \in [CacheFiles -> [Ids -> Int]]
  BY <1>1, <1>2 DEF AcTypeOK, Observe, Held
<1>7. AcTypeOK' /\ RightsAreFresh'
  BY <1>1, <1>2, <1>4, <1>5, <1>6 DEF AcTypeOK, RightsAreFresh
<1>8. HeldInv'
  BY DEF HeldInv, Observe
<1>9. \A f \in CacheFiles : GoodCached(f, cached[f])'
  <2>1. CASE UNCHANGED cached
    <3>1. \A f \in CacheFiles : cached[f].mtime \in Nat
      BY <1>1 DEF AcTypeOK, CachedType
    <3> QED BY <1>1, <1>2, <2>1, <3>1 DEF GoodCached
  <2>2. CASE cached' = [f \in CacheFiles |-> [kept |-> TRUE, data |-> acFile[f], mtime |-> mtime[f]]]
    BY <1>2, <2>2 DEF GoodCached
  <2> QED BY <1>3, <2>1, <2>2
<1>10. GoodInfo(info)'
  <2>1. GoodInfo(info')
    <3>1. CASE info' = [kept |-> TRUE, data |-> acFile, last |-> acClock]
      BY <1>2, <3>1, FileIsGood DEF GoodInfo
    <3> QED BY <1>1, <1>3, <3>1
  <2>2. info'.last \in Nat
    BY <1>4 DEF InfoType
  <2>3. \A f \in CacheFiles : info'.kept => GoodSince(f, info'.data[f], info'.last, lost', acClock')
    BY <2>1, <2>2, GoodSinceKept DEF GoodInfo
  <2> QED BY <1>2, <2>1, <2>2, <2>3 DEF GoodInfo
<1>11. ASSUME NEW r \in DOMAIN check PROVE GoodCheck(check[r])'
  <2> DEFINE q == check[r]
  <2>1. /\ q \in CheckType /\ q.now \in Nat /\ q.seen \in Nat /\ GoodCheck(q) /\ check'[r] = q
        /\ q.now <= acClock /\ q.now - CacheTime + 1 \in Int
    BY <1>1, <1>2 DEF AcTypeOK, CheckType, GoodCheck
  <2>2. CacheTime > 0
    BY AccessAssumption
  <2> HIDE DEF q
  <2>3. ASSUME NEW f \in CacheFiles
        PROVE  /\ q.pc \in {Loading(f), Keeping(f)} => q.seen <= mtime'[f]
               /\ q.pc = Keeping(f) /\ q.seen = mtime'[f] => q[f] = acFile'[f]
               /\ q.pc \in HasRead(f) => GoodSince(f, q[f], q.now, lost', acClock')
               /\ q.pc = "decide" => GoodSince(f, q[f], q.now - CacheTime + 1, lost', acClock')
    <3>1. /\ q.pc \in {Loading(f), Keeping(f)} => q.seen <= mtime[f]
          /\ q.pc = Keeping(f) /\ q.seen = mtime[f] => q[f] = acFile[f]
          /\ q.pc \in HasRead(f) => GoodSince(f, q[f], q.now, lost, acClock)
          /\ q.pc = "decide" => GoodSince(f, q[f], q.now - CacheTime + 1, lost, acClock)
      BY <2>1 DEF GoodCheck
    <3>2. q.pc \in {Loading(f), Keeping(f)} => q.seen <= mtime'[f]
      BY <1>2, <2>1, <3>1
    <3>3. q.pc = Keeping(f) /\ q.seen = mtime'[f] => q[f] = acFile'[f]
      BY <1>2, <2>1, <3>1
    <3>4. q.pc \in HasRead(f) => GoodSince(f, q[f], q.now, lost', acClock')
      BY <2>1, <3>1, GoodSinceKept
    <3>5. q.now - CacheTime + 1 <= acClock
      BY <1>2, <2>1, <2>2
    <3>6. q.pc = "decide" => GoodSince(f, q[f], q.now - CacheTime + 1, lost', acClock')
      BY <2>1, <3>1, <3>5, GoodSinceKept
    <3> QED BY <3>2, <3>3, <3>4, <3>6
  <2>4. q.now <= acClock' /\ (q.pc # "idle" => q.who \in Ids)
    BY <1>2, <2>1 DEF GoodCheck
  <2> QED BY <2>1, <2>3, <2>4 DEF GoodCheck
<1> QED BY <1>7, <1>8, <1>9, <1>10, <1>11 DEF AcInv

(* The handlers save one of the files.                                     *)
LEMMA SaveUsersType ==
  ASSUME AcInv, NEW u \in Ids, NEW s \in UserSection, SaveUsers([acFile.user EXCEPT ![u] = s])
  PROVE  /\ acFile' \in [user : UsersType, acl : AclType] /\ mtime' \in [user : Nat, acl : Nat]
         /\ \A f \in CacheFiles : \/ acFile'[f] = acFile[f] /\ mtime'[f] = mtime[f]
                                  \/ mtime'[f] = mtime[f] + 1
<1>1. [acFile.user EXCEPT ![u] = s] \in UsersType
  BY DEF AcInv, AcTypeOK, UsersType
<1> QED BY <1>1 DEF AcInv, AcTypeOK, SaveUsers, CacheFiles

(* What write_node_config writes are lines of the file.                    *)
LEMMA SaveAclType ==
  ASSUME AcInv, NEW tree, SaveAcl(tree)
  PROVE  /\ acFile' \in [user : UsersType, acl : AclType] /\ mtime' \in [user : Nat, acl : Nat]
         /\ \A f \in CacheFiles : \/ acFile'[f] = acFile[f] /\ mtime'[f] = mtime[f]
                                  \/ mtime'[f] = mtime[f] + 1
<1>1. ASSUME NEW p \in AcPaths, NEW f \in BOOLEAN PROVE WriteLines(tree, p, f) \in AclType
  <2>1. \A r \in Roles : UgList(tree, p, f, r) \in SUBSET Ids
    BY DEF UgList
  <2>2. \A r \in Roles : RoleList(SameList(tree, p, f, r)) \in SUBSET Roles
    BY DEF RoleList, SameList
  <2> QED BY <2>1, <2>2 DEF WriteLines, AclType, LineType
<1>2. \A p \in AcPaths : WriteNodeConfig(tree, p) \in AclType
  BY <1>1 DEF WriteNodeConfig, AclType
<1>3. UNION {WriteNodeConfig(tree, p) : p \in AcPaths} \in AclType
  BY <1>2 DEF AclType
<1> DEFINE new == UNION {WriteNodeConfig(tree, p) : p \in AcPaths}
<1>4. acFile' = [acFile EXCEPT !.acl = new] /\ mtime' = [mtime EXCEPT !.acl = @ + 1]
  BY DEF SaveAcl
<1> HIDE DEF new
<1>5. new \in AclType
  BY <1>3 DEF new
<1> QED BY <1>4, <1>5 DEF AcInv, AcTypeOK, CacheFiles

(* A handler that changes users, tokens or the access control list.        *)
LEMMA ChangeStepInv ==
  ASSUME AcInv, NEW c \in Ids, ChangeStep(c), Observe
  PROVE  AcInv'
<1>1. /\ Section(TRUE, 0) \in UserSection /\ Absent \in UserSection
      /\ \A e \in BOOLEAN, x \in {0, AcMaxTime} : Section(e, x) \in UserSection
  BY AccessAssumption DEF Section, Absent, UserSection
<1>2. AcUsers \subseteq Ids /\ AcTokens \subseteq Ids
  BY DEF Ids
<1>3. ASSUME NEW w, Change(c, w) PROVE Refreshed /\ UNCHANGED <<check, stale>> /\ acClock' = acClock
  BY <1>3, Zenon DEF Change
<1>4. ASSUME Refreshed /\ UNCHANGED <<check, stale>> /\ acClock' = acClock,
             NEW u \in Ids, NEW s \in UserSection, SaveUsers([acFile.user EXCEPT ![u] = s])
      PROVE  AcInv'
  BY <1>4, SaveUsersType, ChangeKeepsInv
<1>5. ASSUME NEW u \in AcUsers, CreateUser(c, u) \/ DeleteUser(c, u) PROVE AcInv'
  <2>1. Refreshed /\ UNCHANGED <<check, stale>> /\ acClock' = acClock
    BY <1>3, <1>5, Zenon DEF CreateUser, DeleteUser
  <2>2. \/ SaveUsers([acFile.user EXCEPT ![u] = Section(TRUE, 0)])
        \/ SaveUsers([acFile.user EXCEPT ![u] = IF u = "root" THEN Section(TRUE, 0) ELSE Absent])
    BY <1>5, Zenon DEF CreateUser, DeleteUser
  <2> QED BY <1>1, <1>2, <1>4, <2>1, <2>2
<1>6. ASSUME NEW u \in AcUsers, NEW e \in BOOLEAN, NEW x \in {0, AcMaxTime}, UpdateUser(c, u, e, x) PROVE AcInv'
  <2>1. Refreshed /\ UNCHANGED <<check, stale>> /\ acClock' = acClock
    BY <1>3, <1>6, Zenon DEF UpdateUser
  <2>2. SaveUsers([acFile.user EXCEPT ![u] = Section(e, x)])
    BY <1>6, Zenon DEF UpdateUser
  <2> QED BY <1>1, <1>2, <1>4, <2>1, <2>2
<1>7. ASSUME NEW t \in AcTokens, GenerateToken(c, t) \/ DeleteToken(c, t) PROVE AcInv'
  <2>1. Refreshed /\ UNCHANGED <<check, stale>> /\ acClock' = acClock
    BY <1>3, <1>7, Zenon DEF GenerateToken, DeleteToken
  <2>2. \/ SaveUsers([acFile.user EXCEPT ![t] = Section(TRUE, 0)])
        \/ SaveUsers([acFile.user EXCEPT ![t] = Absent])
    BY <1>7, Zenon DEF GenerateToken, DeleteToken
  <2> QED BY <1>1, <1>2, <1>4, <2>1, <2>2
<1>8. ASSUME NEW t \in AcTokens, NEW e \in BOOLEAN, UpdateToken(c, t, e, 0) PROVE AcInv'
  <2>1. Refreshed /\ UNCHANGED <<check, stale>> /\ acClock' = acClock
    BY <1>3, <1>8, Zenon DEF UpdateToken
  <2>2. SaveUsers([acFile.user EXCEPT ![t] = Section(e, 0)])
    BY <1>8, Zenon DEF UpdateToken
  <2> QED BY <1>1, <1>2, <1>4, <2>1, <2>2
<1>9. ASSUME NEW p \in AcPaths, NEW a \in Ids, NEW r \in Roles, NEW f \in BOOLEAN, NEW d \in BOOLEAN,
             UpdateAcl(c, p, a, r, f, d)
      PROVE  AcInv'
  <2>1. PICK tree : SaveAcl(tree)
    BY <1>9, Zenon DEF UpdateAcl
  <2>2. Refreshed /\ UNCHANGED <<check, stale>> /\ acClock' = acClock
    BY <1>3, <1>9, Zenon DEF UpdateAcl
  <2> QED BY <2>1, <2>2, SaveAclType, ChangeKeepsInv
<1> QED BY <1>5, <1>6, <1>7, <1>8, <1>9 DEF ChangeStep

(* It holds at the start, and every step keeps it.                         *)
LEMMA AcStart == AcInit => AcInv
<1> SUFFICES ASSUME AcInit PROVE AcInv
  OBVIOUS
<1>1. acFile.user \in UsersType
  BY DEF AcInit, UsersType, UserSection, Section, Absent
<1>2. acFile.acl \in AclType
  BY AccessAssumption DEF AcInit, AclType, LineType, Ids, Roles, RolePrivs
<1>3. /\ acFile \in [user : UsersType, acl : AclType] /\ mtime \in [user : Nat, acl : Nat]
      /\ acClock = 0 /\ stale = 0 /\ mtime.user = 0 /\ mtime.acl = 1
  <2>1. acFile = [user |-> acFile.user, acl |-> acFile.acl]
    BY DEF AcInit
  <2> QED BY <1>1, <1>2, <2>1 DEF AcInit
<1>4. check \in [DOMAIN check -> CheckType] /\ \A r \in DOMAIN check : check[r] = NoCheck
  BY NoCheckFacts DEF AcInit
<1>5. /\ cached \in [CacheFiles -> CachedType]
      /\ \A f \in CacheFiles : ~cached[f].kept /\ cached[f].mtime = 0
  BY NoCheckFacts DEF AcInit, CachedType
<1>6. info \in InfoType /\ ~info.kept /\ info.last = 0
  BY <1>3 DEF AcInit, InfoType, UserData
<1>7. lost \in [CacheFiles -> [Ids -> Int]] /\ HeldInv
  BY <1>3 DEF AcInit, HeldInv, Held
<1>8. AcTypeOK /\ RightsAreFresh
  BY <1>3, <1>4, <1>5, <1>6, <1>7, AccessAssumption DEF AcTypeOK, RightsAreFresh
<1>9. GoodInfo(info) /\ \A f \in CacheFiles : GoodCached(f, cached[f])
  BY <1>3, <1>5, <1>6 DEF GoodInfo, GoodCached, CacheFiles
<1>10. \A r \in DOMAIN check : GoodCheck(check[r])
  BY <1>3, <1>4, NoCheckFacts DEF GoodCheck, Loading, Keeping, HasRead
<1> QED BY <1>7, <1>8, <1>9, <1>10 DEF AcInv

(* AcInv is inductive.                                                     *)
LEMMA AcStep == AcInv /\ [AcNext]_acVars => AcInv'
<1> SUFFICES ASSUME AcInv, [AcNext]_acVars PROVE AcInv'
  OBVIOUS
<1>1. ASSUME NEW r \in DOMAIN check, CheckStep(r) PROVE AcInv'
  BY <1>1, HandleStep, ReadStep, KeepStep, KeepInfoStep, DecideStep DEF CheckStep
<1>2. ASSUME AcTick, Observe PROVE AcInv'
  <2>1. /\ acFile \in [user : UsersType, acl : AclType] /\ mtime \in [user : Nat, acl : Nat]
        /\ UNCHANGED <<acFile, mtime, cached, info, check, stale>> /\ acClock' = acClock + 1
    BY <1>2 DEF AcInv, AcTypeOK, AcTick
  <2> QED BY <1>2, <2>1, ChangeKeepsInv
<1>3. ASSUME NEW c \in Ids, ChangeStep(c), Observe PROVE AcInv'
  BY <1>3, ChangeStepInv
<1>4. CASE UNCHANGED acVars
  BY <1>4 DEF acVars, AcInv, AcTypeOK, HeldInv, RightsAreFresh, GoodInfo, GoodCached, GoodCheck
<1> QED BY <1>1, <1>2, <1>3, <1>4 DEF AcNext

(* RightsAreFresh of AccessControl, for any number of users, tokens,       *)
(* requests and changes, any tree and any time of the cache: a right that  *)
(* was taken away in user.cfg or in acl.cfg has no effect on a request     *)
(* that comes in CacheTime seconds later or after that.                    *)
THEOREM RevokedIsGone == AcSpec => []RightsAreFresh
<1>1. AcInv => RightsAreFresh
  BY DEF AcInv
<1> QED BY <1>1, AcStart, AcStep, PTL DEF AcSpec

-----------------------------------------------------------------------------
(* TapeChanger.                                                            *)

(* The tape library.  Only the job of a drive, or a request while there is *)
(* none, moves the tape in that drive; the tapes in the other drives and   *)
(* in the slots are other tapes.                                           *)
Tapes == Cartridges \cup Cleaners
StatusType == [drives : [ChDrives -> Tapes \cup {NoTag}], slots : [Slots -> Tapes \cup {NoTag}],
               loaded : [ChDrives -> Slots \cup {0}]]
LoadOps == {"load", "backup", "erase", "barcode", "inventory"}
DriveJobs == [pc : {"idle", "status", "decide", "settle", "use", "using", "each", "back", "cleaned", "done"},
              op : LoadOps \cup {"", "clean", "unload", "export", "list", "done"},
              want : Cartridges \cup {NoTag}, slot : {0}, st : StatusType, todo : SUBSET Cartridges]
HardwareOK ==
  /\ inDrive \in [ChDrives -> Tapes \cup {NoTag}] /\ inSlot \in [Slots -> Tapes \cup {NoTag}]
  /\ source \in [ChDrives -> Slots \cup {0}]
ChTypeOK ==
  /\ HardwareOK
  /\ written \in [Tapes -> Cartridges \cup {NoTag}]
  /\ job \in [ChDrives -> DriveJobs]

(* A tape is at one place.                                                 *)
OnePlace ==
  /\ \A d, e \in ChDrives : d # e /\ inDrive[d] = inDrive[e] => inDrive[d] = NoTag
  /\ \A d \in ChDrives, s \in Slots : inDrive[d] = inSlot[s] => inDrive[d] = NoTag
  /\ \A s, t \in Slots : s # t /\ inSlot[s] = inSlot[t] => inSlot[s] = NoTag

(* What a job has read about its own drive is so when it decides, it has   *)
(* seen a tape in one slot at most, and there is a tape in the drive from  *)
(* its loading to its use.                                                 *)
GoodDriveJob(d, j) ==
  /\ j.pc # "idle" => j.want \in Cartridges
  /\ j.pc \in {"status", "decide"} => j.op \in LoadOps \cup {"clean", "unload", "export", "list"}
  /\ j.pc = "decide" =>
       /\ j.st.drives[d] = inDrive[d]
       /\ \A s, t \in Slots : s # t /\ j.st.slots[s] = j.st.slots[t] => j.st.slots[s] = NoTag
  /\ j.pc \in {"settle", "use"} => j.op \in LoadOps \cup {"clean"} /\ inDrive[d] # NoTag
  /\ j.pc = "using" => inDrive[d] # NoTag /\ written[inDrive[d]] = j.want
  /\ j.pc \in {"each", "back"} => j.op \in {"inventory", "barcode"}
ChInv == ChTypeOK /\ OnePlace /\ \A d \in ChDrives : GoodDriveJob(d, job[d])

(* The least element of a set of slots is one of them.                     *)
LEMMA LeastSlot ==
  ASSUME NEW S \in SUBSET Slots, S # {} PROVE Min(S) \in S
<1> DEFINE Less == {p \in Nat \X Nat : p[1] < p[2]}
<1>1. S \subseteq Nat
  BY ChangerAssumption
<1>2. IsWellFoundedOn(Less, Nat)
  BY NatLessThanWellFounded DEF OpToRel
<1> HIDE DEF Less
<1>3. PICK n \in S : \A m \in S : <<m, n>> \notin Less
  BY <1>1, <1>2, WFMin
<1>4. ASSUME NEW m \in S PROVE n <= m
  <2>1. m \in Nat /\ n \in Nat
    BY <1>1
  <2>2. m < n => <<m, n>> \in Less
    BY <2>1 DEF Less
  <2> QED BY <1>3, <2>1, <2>2
<1> QED BY <1>4 DEF Min

(* The hardware of a drive and its job change, and perhaps the label of    *)
(* the tape that is in the drive.                                          *)
LEMMA OneDrive ==
  ASSUME ChInv, NEW d \in ChDrives, NEW n \in DriveJobs, job' = [job EXCEPT ![d] = n],
         HardwareOK', OnePlace', \A e \in ChDrives \ {d} : inDrive'[e] = inDrive[e],
         written' \in [Tapes -> Cartridges \cup {NoTag}],
         \A c \in Tapes \ {inDrive[d]} : written'[c] = written[c],
         GoodDriveJob(d, n)'
  PROVE  ChInv'
<1>1. job' \in [ChDrives -> DriveJobs] /\ job'[d] = n /\ \A e \in ChDrives \ {d} : job'[e] = job[e]
  BY DEF ChInv, ChTypeOK
<1>2. ASSUME NEW e \in ChDrives \ {d} PROVE GoodDriveJob(e, job[e])'
  <2>1. GoodDriveJob(e, job[e]) /\ job'[e] = job[e] /\ inDrive'[e] = inDrive[e]
    BY <1>1 DEF ChInv
  <2>2. inDrive[e] # NoTag => inDrive[e] \in Tapes \ {inDrive[d]}
    BY DEF ChInv, ChTypeOK, HardwareOK, OnePlace
  <2> QED BY <2>1, <2>2 DEF GoodDriveJob
<1>3. GoodDriveJob(d, job[d])'
  BY <1>1 DEF GoodDriveJob
<1> QED BY <1>1, <1>2, <1>3 DEF ChInv, ChTypeOK

(* The robot takes a tape from one place to another one.                   *)
LEMMA LoadMoves ==
  ASSUME HardwareOK, OnePlace, NEW d \in ChDrives, NEW s \in Slots, inSlot[s] # NoTag, inDrive[d] = NoTag,
         inDrive' = [inDrive EXCEPT ![d] = inSlot[s]], inSlot' = [inSlot EXCEPT ![s] = NoTag],
         source' = [source EXCEPT ![d] = s]
  PROVE  HardwareOK' /\ OnePlace' /\ inDrive'[d] # NoTag /\ \A e \in ChDrives \ {d} : inDrive'[e] = inDrive[e]
<1>1. HardwareOK'
  BY DEF HardwareOK
<1>2. /\ inDrive'[d] = inSlot[s] /\ \A e \in ChDrives \ {d} : inDrive'[e] = inDrive[e]
      /\ inSlot'[s] = NoTag /\ \A t \in Slots \ {s} : inSlot'[t] = inSlot[t]
  BY DEF HardwareOK
<1>3. OnePlace'
  <2>1. ASSUME NEW e \in ChDrives, NEW f \in ChDrives, e # f, inDrive'[e] = inDrive'[f] PROVE inDrive'[e] = NoTag
    BY <1>2, <2>1 DEF OnePlace
  <2>2. ASSUME NEW e \in ChDrives, NEW t \in Slots, inDrive'[e] = inSlot'[t] PROVE inDrive'[e] = NoTag
    BY <1>2, <2>2 DEF OnePlace
  <2>3. ASSUME NEW t \in Slots, NEW u \in Slots, t # u, inSlot'[t] = inSlot'[u] PROVE inSlot'[t] = NoTag
    BY <1>2, <2>3 DEF OnePlace
  <2> QED BY <2>1, <2>2, <2>3 DEF OnePlace
<1> QED BY <1>1, <1>2, <1>3

(* The robot puts the tape of a drive into an empty slot.                  *)
LEMMA UnloadMoves ==
  ASSUME HardwareOK, OnePlace, NEW d \in ChDrives, NEW s, inDrive[d] # NoTag, inSlot[s] = NoTag,
         inSlot' = [inSlot EXCEPT ![s] = inDrive[d]], inDrive' = [inDrive EXCEPT ![d] = NoTag],
         source' = [source EXCEPT ![d] = 0]
  PROVE  HardwareOK' /\ OnePlace' /\ \A e \in ChDrives \ {d} : inDrive'[e] = inDrive[e]
<1>1. HardwareOK'
  BY DEF HardwareOK
<1>2. /\ inDrive'[d] = NoTag /\ \A e \in ChDrives \ {d} : inDrive'[e] = inDrive[e]
      /\ \A t \in Slots : inSlot'[t] = IF t = s THEN inDrive[d] ELSE inSlot[t]
  BY DEF HardwareOK
<1>3. OnePlace'
  <2>1. ASSUME NEW e \in ChDrives, NEW f \in ChDrives, e # f, inDrive'[e] = inDrive'[f] PROVE inDrive'[e] = NoTag
    BY <1>2, <2>1 DEF OnePlace
  <2>2. ASSUME NEW e \in ChDrives, NEW t \in Slots, inDrive'[e] = inSlot'[t] PROVE inDrive'[e] = NoTag
    BY <1>2, <2>2 DEF OnePlace
  <2>3. ASSUME NEW t \in Slots, NEW u \in Slots, t # u, inSlot'[t] = inSlot'[u] PROVE inSlot'[t] = NoTag
    BY <1>2, <2>3 DEF OnePlace
  <2> QED BY <2>1, <2>2, <2>3 DEF OnePlace
<1> QED BY <1>1, <1>2, <1>3

(* The robot takes a tape from slot to slot.                               *)
LEMMA TransferMoves ==
  ASSUME HardwareOK, OnePlace, NEW s \in Slots, NEW t \in Slots, TransferMedium(s, t), UNCHANGED <<inDrive, source>>
  PROVE  HardwareOK' /\ OnePlace'
<1>1. CASE inSlot[s] # NoTag /\ inSlot[t] = NoTag
  <2>1. inSlot' = [inSlot EXCEPT ![s] = NoTag, ![t] = inSlot[s]]
    BY <1>1 DEF TransferMedium
  <2>2. HardwareOK'
    BY <2>1 DEF HardwareOK
  <2>3. \A u \in Slots : inSlot'[u] = IF u = t THEN inSlot[s] ELSE IF u = s THEN NoTag ELSE inSlot[u]
    BY <2>1 DEF HardwareOK
  <2>4. OnePlace'
    <3>1. ASSUME NEW e \in ChDrives, NEW u \in Slots, inDrive'[e] = inSlot'[u] PROVE inDrive'[e] = NoTag
      BY <2>3, <3>1 DEF OnePlace
    <3>2. ASSUME NEW v \in Slots, NEW u \in Slots, v # u, inSlot'[v] = inSlot'[u] PROVE inSlot'[v] = NoTag
      BY <2>3, <3>2, <1>1 DEF OnePlace
    <3> QED BY <3>1, <3>2 DEF OnePlace
  <2> QED BY <2>2, <2>4
<1>2. CASE ~(inSlot[s] # NoTag /\ inSlot[t] = NoTag)
  BY <1>2 DEF TransferMedium, HardwareOK, OnePlace
<1> QED BY <1>1, <1>2

(* What a command can come to: nothing, the use of the tape that is there, *)
(* an unloading, a loading, or a transfer that ends the job.               *)
Outcome(d) ==
  \/ UNCHANGED hardware /\ EndJob(d)
  \/ UNCHANGED hardware /\ job[d].op \in LoadOps /\ job[d].st.drives[d] = job[d].want /\ JobAt(d, "use")
  \/ \E s, pc : pc \in {"status", "done"} /\ UnloadDrive(d, s, pc)
  \/ \E s \in Slots : job[d].op \in LoadOps \cup {"clean"} /\ LoadSlot(d, s)
  \/ \E s, t \in Slots : TransferMedium(s, t) /\ UNCHANGED <<inDrive, source>> /\ EndJob(d)

(* Every command comes to one of these.                                    *)
LEMMA CommandOutcome ==
  ASSUME ChInv, NEW d \in ChDrives, Command(d) PROVE Outcome(d)
<1> DEFINE j == job[d]
<1>0. j.pc = "decide" /\ j.op \in LoadOps \cup {"clean", "unload", "export"}
  BY DEF ChInv, GoodDriveJob, Command
<1>1. ASSUME Unload(d) PROVE Outcome(d)
  BY <1>1 DEF Unload, Outcome
<1>2. CASE j.op \in LoadOps
  <2>1. LoadMedia(d, j.want)
    BY <1>2 DEF Command, LoadOps
  <2> DEFINE at == SlotOf(j.st, j.want, Slots \ ExportSlots)
  <2>2. at # {} => Min(at) \in Slots
    <3>1. at \in SUBSET Slots
      BY DEF SlotOf
    <3> QED BY <3>1, LeastSlot
  <2>3. \/ UNCHANGED hardware /\ EndJob(d)
        \/ UNCHANGED hardware /\ j.st.drives[d] = j.want /\ JobAt(d, "use")
        \/ UnloadDrive(d, Min(UnloadTargets(j.st, d)), "status")
        \/ at # {} /\ LoadSlot(d, Min(at))
    BY <2>1 DEF LoadMedia
  <2> QED BY <1>2, <2>2, <2>3 DEF Outcome
<1>3. CASE j.op = "clean"
  <2>1. CleanDrive(d)
    BY <1>3 DEF Command
  <2> DEFINE unit == {s \in Slots \ ExportSlots : j.st.slots[s] \in Cleaners}
  <2>2. unit # {} => Min(unit) \in Slots
    <3>1. unit \in SUBSET Slots
      OBVIOUS
    <3> QED BY <3>1, LeastSlot
  <2>3. \/ Unload(d)
        \/ UNCHANGED hardware /\ EndJob(d)
        \/ unit # {} /\ LoadSlot(d, Min(unit))
    BY <2>1 DEF CleanDrive
  <2> QED BY <1>1, <1>3, <2>2, <2>3 DEF Outcome
<1>4. CASE j.op = "unload"
  <2>1. Unload(d) \/ (UNCHANGED hardware /\ EndJob(d))
    BY <1>4 DEF Command
  <2> QED BY <1>1, <2>1 DEF Outcome
<1>5. CASE j.op = "export"
  <2>1. ExportMedia(d, j.want)
    BY <1>5 DEF Command
  <2> DEFINE to == FindFreeSlot(j.st, ExportSlots)
             from == SlotOf(j.st, j.want, Slots \ ExportSlots)
  <2>2. \/ UnloadDrive(d, Min(to), "done")
        \/ from # {} /\ to # {} /\ TransferMedium(Max(from), Min(to)) /\ UNCHANGED <<inDrive, source>> /\ EndJob(d)
        \/ UNCHANGED hardware /\ EndJob(d)
    BY <2>1 DEF ExportMedia
  <2>3. to # {} => Min(to) \in Slots
    <3>1. to \in SUBSET Slots
      BY ChangerAssumption DEF FindFreeSlot
    <3> QED BY <3>1, LeastSlot
  <2>4. from # {} => Max(from) \in Slots
    <3> SUFFICES ASSUME NEW s \in from PROVE Max(from) \in Slots
      OBVIOUS
    <3>1. s \in Slots /\ s \in Nat
      BY ChangerAssumption DEF SlotOf
    <3>2. j.want # NoTag
      BY <1>0, ChangerAssumption DEF ChInv, GoodDriveJob
    <3>3. \A t \in from : t = s
      BY <1>0, <3>2 DEF ChInv, GoodDriveJob, SlotOf
    <3>4. \A t \in from : s >= t
      BY <3>1, <3>3
    <3> HIDE DEF from
    <3> QED BY <3>1, <3>3, <3>4 DEF Max
  <2> QED BY <2>2, <2>3, <2>4 DEF Outcome
<1> QED BY <1>0, <1>2, <1>3, <1>4, <1>5

(* The steps of a job that leave the hardware alone.                       *)
LEMMA SameHardware ==
  ASSUME ChInv, NEW d \in ChDrives, UNCHANGED hardware
  PROVE  HardwareOK' /\ OnePlace' /\ inDrive' = inDrive /\ \A e \in ChDrives \ {d} : inDrive'[e] = inDrive[e]
BY DEF ChInv, ChTypeOK, hardware, HardwareOK, OnePlace

(* The steps of a job that write no label.                                 *)
LEMMA SameLabels ==
  ASSUME ChInv, UNCHANGED written
  PROVE  written' \in [Tapes -> Cartridges \cup {NoTag}] /\ \A c \in Tapes : written'[c] = written[c]
BY DEF ChInv, ChTypeOK

(* The job ends.                                                           *)
LEMMA IdleJob ==
  NoJob \in DriveJobs /\ NoJob.pc = "idle"
BY ChangerAssumption DEF NoJob, DriveJobs, NoStatus, StatusType, LoadOps

(* A command keeps the invariant, whatever it comes to.                    *)
LEMMA CommandKeeps ==
  ASSUME ChInv, NEW d \in ChDrives, Outcome(d), UNCHANGED written, job[d].pc = "decide" PROVE ChInv'
<1> DEFINE j == job[d]
<1>0. j \in DriveJobs /\ GoodDriveJob(d, j) /\ HardwareOK /\ OnePlace /\ job \in [ChDrives -> DriveJobs]
  BY DEF ChInv, ChTypeOK
<1>1. written' \in [Tapes -> Cartridges \cup {NoTag}] /\ \A c \in Tapes \ {inDrive[d]} : written'[c] = written[c]
  BY SameLabels
<1>2. ASSUME EndJob(d), HardwareOK', OnePlace', \A e \in ChDrives \ {d} : inDrive'[e] = inDrive[e] PROVE ChInv'
  <2>1. NoJob \in DriveJobs /\ GoodDriveJob(d, NoJob)'
    BY IdleJob DEF GoodDriveJob
  <2> QED BY <1>1, <1>2, <2>1, OneDrive DEF EndJob
<1>3. ASSUME NEW pc \in {"status", "done", "settle", "use"}, JobAt(d, pc), HardwareOK', OnePlace',
             \A e \in ChDrives \ {d} : inDrive'[e] = inDrive[e],
             pc \in {"settle", "use"} => j.op \in LoadOps \cup {"clean"} /\ inDrive'[d] # NoTag
      PROVE  ChInv'
  <2>0. PICK n : n = [j EXCEPT !.pc = pc]
    OBVIOUS
  <2>1. n \in DriveJobs /\ n.pc = pc /\ n.op = j.op /\ n.want = j.want /\ n.st = j.st
    BY <1>0, <2>0 DEF DriveJobs
  <2>2. job' = [job EXCEPT ![d] = n]
    BY <1>0, <1>3, <2>0 DEF JobAt
  <2>3. GoodDriveJob(d, n)'
    BY <1>0, <1>3, <2>1 DEF GoodDriveJob
  <2> QED BY <1>1, <1>3, <2>1, <2>2, <2>3, OneDrive
<1>4. CASE UNCHANGED hardware /\ EndJob(d)
  BY <1>2, <1>4, SameHardware
<1>5. CASE UNCHANGED hardware /\ j.op \in LoadOps /\ j.st.drives[d] = j.want /\ JobAt(d, "use")
  <2>1. inDrive[d] # NoTag
    BY <1>0, <1>5, ChangerAssumption DEF GoodDriveJob
  <2> QED BY <1>3, <1>5, <2>1, SameHardware
<1>6. ASSUME NEW s, NEW pc \in {"status", "done"}, UnloadDrive(d, s, pc) PROVE ChInv'
  <2>1. CASE inDrive[d] # NoTag /\ inSlot[s] = NoTag
    <3>1. JobAt(d, pc) /\ HardwareOK' /\ OnePlace' /\ \A e \in ChDrives \ {d} : inDrive'[e] = inDrive[e]
      BY <1>0, <1>6, <2>1, UnloadMoves DEF UnloadDrive
    <3> QED BY <1>3, <1>6, <3>1
  <2>2. CASE ~(inDrive[d] # NoTag /\ inSlot[s] = NoTag)
    BY <1>2, <1>6, <2>2, SameHardware DEF UnloadDrive
  <2> QED BY <2>1, <2>2
<1>7. ASSUME NEW s \in Slots, j.op \in LoadOps \cup {"clean"}, LoadSlot(d, s) PROVE ChInv'
  <2>1. CASE inSlot[s] # NoTag /\ inDrive[d] = NoTag
    <3>1. /\ JobAt(d, "settle") /\ HardwareOK' /\ OnePlace' /\ inDrive'[d] # NoTag
          /\ \A e \in ChDrives \ {d} : inDrive'[e] = inDrive[e]
      BY <1>0, <1>7, <2>1, LoadMoves DEF LoadSlot
    <3> QED BY <1>3, <1>7, <3>1
  <2>2. CASE ~(inSlot[s] # NoTag /\ inDrive[d] = NoTag)
    BY <1>2, <1>7, <2>2, SameHardware DEF LoadSlot
  <2> QED BY <2>1, <2>2
<1>8. ASSUME NEW s \in Slots, NEW t \in Slots, TransferMedium(s, t), UNCHANGED <<inDrive, source>>, EndJob(d)
      PROVE  ChInv'
  BY <1>0, <1>2, <1>8, TransferMoves
<1> QED BY <1>4, <1>5, <1>6, <1>7, <1>8 DEF Outcome

(* A job of a drive goes on, and the hardware is what it was.              *)
LEMMA JobKeeps ==
  ASSUME ChInv, NEW d \in ChDrives, NEW n \in DriveJobs, job' = [job EXCEPT ![d] = n], UNCHANGED hardware,
         written' \in [Tapes -> Cartridges \cup {NoTag}],
         \A c \in Tapes \ {inDrive[d]} : written'[c] = written[c],
         GoodDriveJob(d, n)'
  PROVE  ChInv'
BY SameHardware, OneDrive

(* A job whose status is read.                                             *)
LEMMA SenseKeeps ==
  ASSUME ChInv, NEW d \in ChDrives, SenseStatus(d) PROVE ChInv'
<1> DEFINE j == job[d]
<1>0. j \in DriveJobs /\ GoodDriveJob(d, j) /\ HardwareOK /\ OnePlace /\ job \in [ChDrives -> DriveJobs]
  BY DEF ChInv, ChTypeOK
<1>1. UNCHANGED hardware /\ UNCHANGED written
  BY DEF SenseStatus, records
<1>2. written' \in [Tapes -> Cartridges \cup {NoTag}] /\ \A c \in Tapes \ {inDrive[d]} : written'[c] = written[c]
  BY <1>1, SameLabels
<1>3. PICK n : /\ job' = [job EXCEPT ![d] = n]
               /\ \/ n = NoJob
                  \/ n = [j EXCEPT !.st = Status, !.pc = IF @ = "status" THEN "decide" ELSE "use"]
  <2>1. CASE EndJob(d)
    BY <2>1 DEF EndJob
  <2>2. CASE job' = [job EXCEPT ![d].st = Status, ![d].pc = IF @ = "status" THEN "decide" ELSE "use"]
    BY <1>0, <2>2
  <2> QED BY <2>1, <2>2 DEF SenseStatus
<1>4. n \in DriveJobs /\ GoodDriveJob(d, n)'
  <2>1. CASE n = NoJob
    BY <2>1, IdleJob DEF GoodDriveJob
  <2>2. CASE n = [j EXCEPT !.st = Status, !.pc = IF @ = "status" THEN "decide" ELSE "use"]
    <3>1. Status \in StatusType
      BY <1>0 DEF Status, StatusType, HardwareOK
    <3>2. n \in DriveJobs /\ n.op = j.op /\ n.want = j.want /\ n.st = Status
          /\ n.pc = IF j.pc = "status" THEN "decide" ELSE "use"
      BY <1>0, <2>2, <3>1, ZenonT(60) DEF DriveJobs
    <3>3. j.pc \in {"status", "settle"}
      BY DEF SenseStatus
    <3>4. Status.drives = inDrive /\ Status.slots = inSlot
      BY DEF Status
    <3>5. inDrive' = inDrive
      BY <1>1 DEF hardware
    <3>6. \A s, t \in Slots : s # t /\ n.st.slots[s] = n.st.slots[t] => n.st.slots[s] = NoTag
      BY <1>0, <3>2, <3>4 DEF OnePlace
    <3> QED BY <1>0, <3>2, <3>3, <3>4, <3>5, <3>6 DEF GoodDriveJob
  <2> QED BY <1>3, <2>1, <2>2
<1> QED BY <1>1, <1>2, <1>3, <1>4, JobKeeps

(* Steps that only change where a job is and what it goes through.         *)
LEMMA ListKeeps ==
  ASSUME ChInv, NEW d \in ChDrives,
         \/ ListOnline(d) \/ FinishUse(d)
         \/ \E c \in Cartridges, all \in BOOLEAN : NextTape(d, c, all)
         \/ \E op \in JobKinds, c \in Cartridges : StartJob(d, op, c)
  PROVE  ChInv'
<1> DEFINE j == job[d]
<1>0. j \in DriveJobs /\ GoodDriveJob(d, j) /\ HardwareOK /\ job \in [ChDrives -> DriveJobs]
  BY DEF ChInv, ChTypeOK
<1>1. UNCHANGED hardware /\ UNCHANGED written
  BY DEF ListOnline, FinishUse, NextTape, StartJob, records
<1>2. written' \in [Tapes -> Cartridges \cup {NoTag}] /\ \A c \in Tapes \ {inDrive[d]} : written'[c] = written[c]
  BY <1>1, SameLabels
<1>3. SUFFICES \E n \in DriveJobs : job' = [job EXCEPT ![d] = n] /\ GoodDriveJob(d, n)'
  BY <1>1, <1>2, JobKeeps
<1>4. ASSUME NEW n \in DriveJobs, job' = [job EXCEPT ![d] = n], n.pc \in {"idle", "status", "each", "done"},
             n.pc # "idle" => n.want \in Cartridges,
             n.pc = "status" => n.op \in LoadOps \cup {"clean", "unload", "export", "list"},
             n.pc = "each" => n.op \in {"inventory", "barcode"}
      PROVE  \E m \in DriveJobs : job' = [job EXCEPT ![d] = m] /\ GoodDriveJob(d, m)'
  BY <1>4 DEF GoodDriveJob
<1>5. CASE ListOnline(d)
  <2>0. PICK op \in {"inventory", "barcode", "done"} :
          job' = [job EXCEPT ![d].op = op, ![d].todo = OnlineTags(j.st),
                             ![d].pc = IF op = "done" THEN "done" ELSE "each"]
    BY <1>5 DEF ListOnline
  <2>1. PICK n, pc : /\ pc = (IF op = "done" THEN "done" ELSE "each")
                     /\ n = [j EXCEPT !.op = op, !.todo = OnlineTags(j.st), !.pc = pc]
    OBVIOUS
  <2>2. job' = [job EXCEPT ![d] = n]
    BY <1>0, <2>0, <2>1
  <2>3. OnlineTags(j.st) \subseteq Cartridges
    <3>1. j.st \in StatusType
      BY <1>0 DEF DriveJobs
    <3>2. ASSUME NEW c \in OnlineTags(j.st) PROVE c \in Cartridges
      <4>1. c \notin {NoTag} \cup Cleaners
        BY <3>2 DEF OnlineTags
      <4>2. (\E e \in ChDrives : c = j.st.drives[e]) \/ (\E s \in Slots : c = j.st.slots[s])
        BY <3>2 DEF OnlineTags
      <4>3. c \in Tapes \cup {NoTag}
        BY <3>1, <4>2 DEF StatusType
      <4> QED BY <4>1, <4>3 DEF Tapes
    <3> QED BY <3>2
  <2>4. /\ n \in DriveJobs /\ n.pc = pc /\ n.op = op /\ n.want = j.want
    BY <1>0, <2>1, <2>3 DEF DriveJobs, LoadOps
  <2>5. n.want \in Cartridges
    BY <1>0, <1>5, <2>4 DEF GoodDriveJob, ListOnline
  <2>6. pc \in {"each", "done"} /\ (pc = "each" => op \in {"inventory", "barcode"})
    BY <2>1
  <2> QED BY <1>4, <2>2, <2>4, <2>5, <2>6
<1>6. CASE FinishUse(d)
  <2>1. CASE EndJob(d)
    BY <1>4, <2>1, IdleJob DEF EndJob
  <2>2. ASSUME NEW op \in {"unload", "export"}, job[d].pc = "using",
               job' = [job EXCEPT ![d].pc = "status", ![d].op = op]
        PROVE  \E n \in DriveJobs : job' = [job EXCEPT ![d] = n] /\ GoodDriveJob(d, n)'
    <3>1. PICK n : n = [j EXCEPT !.pc = "status", !.op = op]
      OBVIOUS
    <3>2. n \in DriveJobs /\ n.pc = "status" /\ n.op = op /\ n.want = j.want
      BY <1>0, <3>1 DEF DriveJobs
    <3>3. job' = [job EXCEPT ![d] = n]
      BY <1>0, <2>2, <3>1
    <3>4. n.want \in Cartridges
      BY <1>0, <2>2, <3>2 DEF GoodDriveJob
    <3> QED BY <1>4, <3>2, <3>3, <3>4
  <2> QED BY <1>6, <2>1, <2>2 DEF FinishUse
<1>7. ASSUME NEW c \in Cartridges, NEW all \in BOOLEAN, NextTape(d, c, all)
      PROVE  \E n \in DriveJobs : job' = [job EXCEPT ![d] = n] /\ GoodDriveJob(d, n)'
  <2>0. PICK pc \in {"each", "status"} :
          job' = [job EXCEPT ![d].todo = @ \ {c}, ![d].want = c, ![d].pc = pc]
    BY <1>7 DEF NextTape
  <2>1. PICK n : n = [j EXCEPT !.todo = @ \ {c}, !.want = c, !.pc = pc]
    OBVIOUS
  <2>2. job' = [job EXCEPT ![d] = n]
    BY <1>0, <2>0, <2>1
  <2>3. n \in DriveJobs /\ n.pc = pc /\ n.op = j.op /\ n.want = c
    BY <1>0, <2>1 DEF DriveJobs
  <2>4. j.op \in {"inventory", "barcode"}
    BY <1>0, <1>7 DEF NextTape, GoodDriveJob
  <2> QED BY <1>4, <2>2, <2>3, <2>4 DEF LoadOps
<1>8. ASSUME NEW op \in JobKinds, NEW c \in Cartridges, StartJob(d, op, c)
      PROVE  \E n \in DriveJobs : job' = [job EXCEPT ![d] = n] /\ GoodDriveJob(d, n)'
  <2>1. PICK n : n = [NoJob EXCEPT !.pc = "status", !.op = op, !.want = c] /\ job' = [job EXCEPT ![d] = n]
    BY <1>8 DEF StartJob
  <2>2. n \in DriveJobs /\ n.pc = "status" /\ n.op = op /\ n.want = c
    BY <2>1, IdleJob DEF DriveJobs, JobKinds, LoadOps
  <2> QED BY <1>4, <2>1, <2>2 DEF JobKinds, LoadOps
<1> QED BY <1>5, <1>6, <1>7, <1>8

(* The tape in the drive is used.                                          *)
LEMMA UseKeeps ==
  ASSUME ChInv, NEW d \in ChDrives, UseTape(d) PROVE ChInv'
<1> DEFINE j == job[d]
           t == inDrive[d]
<1>0. j \in DriveJobs /\ GoodDriveJob(d, j) /\ job \in [ChDrives -> DriveJobs]
      /\ written \in [Tapes -> Cartridges \cup {NoTag}] /\ HardwareOK
  BY DEF ChInv, ChTypeOK
<1>1. /\ j.pc = "use" /\ j.op \in LoadOps \cup {"clean"} /\ j.want \in Cartridges
      /\ t # NoTag /\ t \in Tapes /\ UNCHANGED hardware /\ inDrive' = inDrive
  BY <1>0 DEF UseTape, GoodDriveJob, HardwareOK, hardware
<1>2. ASSUME NEW n \in DriveJobs, job' = [job EXCEPT ![d] = n],
             \/ UNCHANGED written
             \/ \E label \in Cartridges \cup {NoTag} : written' = [written EXCEPT ![t] = label],
             GoodDriveJob(d, n)'
      PROVE  ChInv'
  <2>1. written' \in [Tapes -> Cartridges \cup {NoTag}] /\ \A c \in Tapes \ {inDrive[d]} : written'[c] = written[c]
    BY <1>0, <1>1, <1>2
  <2> QED BY <1>1, <1>2, <2>1, JobKeeps
<1>3. ASSUME EndJob(d), \/ UNCHANGED written
                        \/ written' = [written EXCEPT ![t] = NoTag]
      PROVE  ChInv'
  <2>1. NoJob \in DriveJobs /\ GoodDriveJob(d, NoJob)'
    BY IdleJob DEF GoodDriveJob
  <2> QED BY <1>2, <1>3, <2>1 DEF EndJob
<1>4. ASSUME NEW pc \in {"using", "each", "back", "cleaned"},
             \/ JobAt(d, pc) \/ Drive(d, pc, j.todo),
             pc = "using" => written[t] = j.want /\ UNCHANGED written,
             pc \in {"each", "back"} => j.op \in {"inventory", "barcode"},
             \/ UNCHANGED written
             \/ written' = [written EXCEPT ![t] = j.want]
      PROVE  ChInv'
  <2>1. PICK n : n = [j EXCEPT !.pc = pc]
    OBVIOUS
  <2>2. n \in DriveJobs /\ n.pc = pc /\ n.op = j.op /\ n.want = j.want
    BY <1>0, <2>1 DEF DriveJobs
  <2>3. job' = [job EXCEPT ![d] = n]
    <3>1. CASE JobAt(d, pc)
      BY <1>0, <2>1, <3>1 DEF JobAt
    <3>2. CASE Drive(d, pc, j.todo)
      <4>1. n = [j EXCEPT !.pc = pc, !.todo = j.todo]
        BY <1>0, <2>1 DEF DriveJobs
      <4> QED BY <1>0, <3>2, <4>1 DEF Drive
    <3> QED BY <1>4, <3>1, <3>2
  <2>4. GoodDriveJob(d, n)'
    BY <1>1, <1>4, <2>2 DEF GoodDriveJob
  <2> QED BY <1>1, <1>2, <1>4, <2>2, <2>3, <2>4
<1>5. CASE j.op = "load"
  BY <1>3, <1>5 DEF UseTape, records
<1>6. CASE j.op = "backup"
  <2>1. UNCHANGED written /\ IF CheckLabel(d, j.want) THEN JobAt(d, "using") ELSE EndJob(d)
    BY <1>6 DEF UseTape, records
  <2> QED BY <1>3, <1>4, <2>1 DEF CheckLabel
<1>7. CASE j.op = "erase"
  <2>1. EndJob(d) /\ (UNCHANGED written \/ written' = [written EXCEPT ![t] = NoTag])
    BY <1>7 DEF UseTape
  <2> QED BY <1>3, <2>1
<1>8. CASE j.op = "inventory"
  <2>1. UNCHANGED written /\ (Drive(d, "back", j.todo) \/ Drive(d, "each", j.todo))
    BY <1>8 DEF UseTape
  <2> QED BY <1>4, <1>8, <2>1
<1>9. CASE j.op = "barcode"
  <2>1. Drive(d, "each", j.todo) /\ (UNCHANGED written \/ written' = [written EXCEPT ![t] = j.want])
    BY <1>9 DEF UseTape
  <2> QED BY <1>4, <1>9, <2>1
<1>10. CASE j.op = "clean"
  <2>1. JobAt(d, "cleaned") /\ UNCHANGED written
    BY <1>10 DEF UseTape, records
  <2> QED BY <1>4, <2>1
<1> QED BY <1>1, <1>5, <1>6, <1>7, <1>8, <1>9, <1>10 DEF LoadOps

(* A tape goes back: the next one, or the end.                             *)
LEMMA BackKeeps ==
  ASSUME ChInv, NEW d \in ChDrives, UnloadBack(d) \/ CleanerBack(d) PROVE ChInv'
<1> DEFINE j == job[d]
<1>0. j \in DriveJobs /\ GoodDriveJob(d, j) /\ job \in [ChDrives -> DriveJobs] /\ HardwareOK /\ OnePlace
  BY DEF ChInv, ChTypeOK
<1>1. UNCHANGED written
  BY DEF UnloadBack, CleanerBack, records
<1>2. written' \in [Tapes -> Cartridges \cup {NoTag}] /\ \A c \in Tapes \ {inDrive[d]} : written'[c] = written[c]
  BY <1>1, SameLabels
<1>3. CASE UNCHANGED hardware /\ EndJob(d)
  <2>1. NoJob \in DriveJobs /\ GoodDriveJob(d, NoJob)'
    BY IdleJob DEF GoodDriveJob
  <2> QED BY <1>2, <1>3, <2>1, JobKeeps DEF EndJob
<1>4. ASSUME NEW s, NEW pc \in {"each", "done"}, UnloadDrive(d, s, pc), j.want \in Cartridges,
             pc = "each" => j.op \in {"inventory", "barcode"}
      PROVE  ChInv'
  <2>1. CASE inDrive[d] # NoTag /\ inSlot[s] = NoTag
    <3>1. JobAt(d, pc) /\ HardwareOK' /\ OnePlace' /\ \A e \in ChDrives \ {d} : inDrive'[e] = inDrive[e]
      BY <1>0, <1>4, <2>1, UnloadMoves DEF UnloadDrive
    <3>2. PICK n : n = [j EXCEPT !.pc = pc]
      OBVIOUS
    <3>3. n \in DriveJobs /\ n.pc = pc /\ n.op = j.op /\ n.want = j.want
      BY <1>0, <3>2 DEF DriveJobs
    <3>4. job' = [job EXCEPT ![d] = n]
      BY <1>0, <3>1, <3>2 DEF JobAt
    <3>5. GoodDriveJob(d, n)'
      BY <1>4, <3>3 DEF GoodDriveJob
    <3> QED BY <1>2, <3>1, <3>3, <3>4, <3>5, OneDrive
  <2>2. CASE ~(inDrive[d] # NoTag /\ inSlot[s] = NoTag)
    BY <1>3, <1>4, <2>2 DEF UnloadDrive
  <2> QED BY <2>1, <2>2
<1>5. CASE UnloadBack(d)
  <2>1. \/ UNCHANGED hardware /\ EndJob(d)
        \/ UnloadDrive(d, Min(UnloadTargets(Status, d)), "each")
    BY <1>5 DEF UnloadBack
  <2>2. j.want \in Cartridges /\ j.op \in {"inventory", "barcode"}
    BY <1>0, <1>5 DEF UnloadBack, GoodDriveJob
  <2> QED BY <1>3, <1>4, <2>1, <2>2
<1>6. CASE CleanerBack(d)
  <2>1. UnloadDrive(d, source[d], "done") /\ j.want \in Cartridges
    BY <1>0, <1>6 DEF CleanerBack, GoodDriveJob
  <2> QED BY <1>4, <2>1
<1> QED BY <1>5, <1>6

(* Requests beside the jobs: a drive without a job is loaded, or a tape    *)
(* goes from slot to slot.                                                 *)
LEMMA RequestKeeps ==
  ASSUME ChInv,
         \/ \E d \in ChDrives, s \in Slots : LoadFromSlot(d, s)
         \/ \E s, t \in Slots : Transfer(s, t)
         \/ \E useCache \in BOOLEAN : GetStatus(useCache)
         \/ UNCHANGED chVars
  PROVE  ChInv'
<1>0. HardwareOK /\ OnePlace /\ ChTypeOK /\ \A d \in ChDrives : GoodDriveJob(d, job[d])
  BY DEF ChInv, ChTypeOK
<1>1. ASSUME UNCHANGED <<written, job, inDrive>>, HardwareOK', OnePlace' PROVE ChInv'
  BY <1>0, <1>1 DEF ChInv, ChTypeOK, GoodDriveJob
<1>2. ASSUME NEW d \in ChDrives, NEW s \in Slots, LoadFromSlot(d, s) PROVE ChInv'
  <2>1. job[d].pc = "idle" /\ UNCHANGED <<written, job>>
    BY <1>2 DEF LoadFromSlot, records
  <2>2. HardwareOK' /\ OnePlace' /\ \A e \in ChDrives \ {d} : inDrive'[e] = inDrive[e]
    <3>1. CASE inSlot[s] # NoTag /\ inDrive[d] = NoTag
      BY <1>0, <1>2, <3>1, LoadMoves DEF LoadFromSlot
    <3>2. CASE ~(inSlot[s] # NoTag /\ inDrive[d] = NoTag)
      BY <1>2, <3>2, SameHardware DEF LoadFromSlot
    <3> QED BY <3>1, <3>2
  <2>3. \A e \in ChDrives : GoodDriveJob(e, job[e])'
    BY <1>0, <2>1, <2>2 DEF GoodDriveJob
  <2> QED BY <1>0, <2>1, <2>2, <2>3 DEF ChInv, ChTypeOK
<1>3. ASSUME NEW s \in Slots, NEW t \in Slots, Transfer(s, t) PROVE ChInv'
  <2>1. UNCHANGED <<written, job, inDrive, source>> /\ TransferMedium(s, t)
    BY <1>3 DEF Transfer, records
  <2> QED BY <1>0, <1>1, <2>1, TransferMoves
<1>4. ASSUME UNCHANGED <<inDrive, inSlot, source, written, job>> PROVE ChInv'
  BY <1>0, <1>1, <1>4 DEF HardwareOK, OnePlace
<1> QED BY <1>2, <1>3, <1>4 DEF GetStatus, chVars, hardware

(* At first all tapes are in their slots, and nobody uses them.            *)
LEMMA ChStart == ASSUME ChInit PROVE ChInv
<1>1. ChTypeOK
  BY IdleJob, ChangerAssumption DEF ChInit, ChTypeOK, HardwareOK, Tapes
<1>2. OnePlace
  BY ChangerAssumption DEF ChInit, OnePlace
<1>3. \A d \in ChDrives : GoodDriveJob(d, job[d])
  BY IdleJob DEF ChInit, GoodDriveJob
<1> QED BY <1>1, <1>2, <1>3 DEF ChInv

(* Every step keeps the invariant.                                         *)
LEMMA ChStep == ASSUME ChInv, [ChNext]_chVars PROVE ChInv'
<1>1. ASSUME NEW d \in ChDrives, DriveStep(d) PROVE ChInv'
  <2>1. ASSUME Command(d) PROVE ChInv'
    <3>1. Outcome(d)
      BY <2>1, CommandOutcome
    <3>2. UNCHANGED written /\ job[d].pc = "decide"
      BY <2>1 DEF Command, records
    <3> QED BY <3>1, <3>2, CommandKeeps
  <2> QED BY <1>1, <2>1, SenseKeeps, ListKeeps, UseKeeps, BackKeeps DEF DriveStep
<1> QED BY <1>1, ListKeeps, RequestKeeps DEF ChNext

(* Whatever the jobs of other drives, transfers and inventories do between *)
(* the status and the command, a backup or restore works on the tape that  *)
(* it has asked for: its label is checked after it has been loaded, only   *)
(* the job moves the tape in its drive, and labels are written to tapes in *)
(* other drives.                                                           *)
THEOREM WantedTapeIsUsed == ChSpec => []UsedTapeIsWanted
<1>1. ChInv => UsedTapeIsWanted
  BY DEF ChInv, GoodDriveJob, UsedTapeIsWanted
<1>2. ChInit => ChInv
  BY ChStart
<1>3. ChInv /\ [ChNext]_chVars => ChInv'
  BY ChStep
<1> QED BY <1>1, <1>2, <1>3, PTL DEF ChSpec

-----------------------------------------------------------------------------
(* RoundRobin.  A time t is in slot t \div r, and the slot q is kept at    *)
(* place q % Entries.                                                      *)

LEMMA TimesMonotone ==
  ASSUME NEW a \in Int, NEW b \in Int, NEW r \in Nat, r > 0, a < b
  PROVE  r * a + r <= r * b
<1>1. b - a >= 1
  OBVIOUS
<1>2. r * (b - a) >= r
  BY <1>1
<1>3. r * (b - a) = r * b - r * a
  OBVIOUS
<1> QED  BY <1>2, <1>3

LEMMA SlotBounds ==
  ASSUME NEW t \in Int, NEW r \in Nat, r > 0
  PROVE  t \div r \in Int /\ r * (t \div r) <= t /\ t < r * (t \div r) + r
OBVIOUS

(* The bounds of a slot determine it.                                      *)
LEMMA SlotIs ==
  ASSUME NEW t \in Int, NEW r \in Nat, r > 0, NEW q \in Int, r * q <= t, t < r * q + r
  PROVE  t \div r = q
<1> DEFINE d == t \div r
<1>1. d \in Int /\ r * d <= t /\ t < r * d + r
  BY SlotBounds
<1> HIDE DEF d
<1>2. ~(d < q)
  <2> SUFFICES ASSUME d < q PROVE FALSE
    OBVIOUS
  <2>1. r * d + r <= r * q
    BY <1>1, TimesMonotone
  <2>2. r * d \in Int /\ r * q \in Int
    BY <1>1
  <2> QED  BY <1>1, <2>1, <2>2
<1>3. ~(q < d)
  <2> SUFFICES ASSUME q < d PROVE FALSE
    OBVIOUS
  <2>1. r * q + r <= r * d
    BY <1>1, TimesMonotone
  <2>2. r * d \in Int /\ r * q \in Int
    BY <1>1
  <2> QED  BY <1>1, <2>1, <2>2
<1>4. d = q
  BY <1>1, <1>2, <1>3
<1> QED  BY <1>4 DEF d

LEMMA SlotOfStart ==
  ASSUME NEW q \in Int, NEW r \in Nat, r > 0
  PROVE  (r * q) \div r = q
<1>1. r * q \in Int /\ r * q <= r * q /\ r * q < r * q + r
  OBVIOUS
<1> QED  BY <1>1, SlotIs

LEMMA SlotShift ==
  ASSUME NEW t \in Int, NEW r \in Nat, r > 0, NEW k \in Int
  PROVE  (t - k * r) \div r = t \div r - k
<1> DEFINE d == t \div r
<1>1. d \in Int /\ r * d <= t /\ t < r * d + r
  BY SlotBounds
<1> HIDE DEF d
<1>2. r * (d - k) = r * d - k * r /\ r * (d - k) \in Int /\ t - k * r \in Int /\ d - k \in Int
  BY <1>1
<1>3. r * (d - k) <= t - k * r /\ t - k * r < r * (d - k) + r
  BY <1>1, <1>2
<1>4. (t - k * r) \div r = d - k
  BY <1>2, <1>3, SlotIs
<1> QED  BY <1>4 DEF d

LEMMA SlotMonotone ==
  ASSUME NEW s \in Int, NEW t \in Int, NEW r \in Nat, r > 0, s <= t
  PROVE  s \div r <= t \div r
<1> DEFINE d == s \div r
           e == t \div r
<1>1. d \in Int /\ r * d <= s /\ s < r * d + r /\ e \in Int /\ r * e <= t /\ t < r * e + r
  BY SlotBounds
<1> HIDE DEF d, e
<1>2. ~(e < d)
  <2> SUFFICES ASSUME e < d PROVE FALSE
    OBVIOUS
  <2>1. r * e + r <= r * d
    BY <1>1, TimesMonotone
  <2>2. r * d \in Int /\ r * e \in Int
    BY <1>1
  <2> QED  BY <1>1, <2>1, <2>2
<1>3. d <= e
  BY <1>1, <1>2
<1> QED  BY <1>3 DEF d, e

LEMMA PlaceOf ==
  ASSUME NEW q \in Int, NEW n \in Nat, n > 0
  PROVE  q % n \in 0 .. n - 1 /\ q = n * (q \div n) + (q % n)
<1>1. q % n \in 0 .. n - 1
  OBVIOUS
<1>2. q = n * (q \div n) + (q % n)
  OBVIOUS
<1> QED  BY <1>1, <1>2

LEMMA PlaceIs ==
  ASSUME NEW u \in Int, NEW n \in Nat, n > 0, NEW a \in 0 .. n - 1
  PROVE  (n * u + a) % n = a
<1> DEFINE q == n * u + a
<1>0. n * u \in Int /\ q \in Int
  OBVIOUS
<1>1. n * u <= q /\ q < n * u + n
  BY <1>0
<1>2. q \div n = u
  <2> HIDE DEF q
  <2> QED  BY <1>0, <1>1, SlotIs
<1>3. q = n * (q \div n) + (q % n) /\ q % n \in 0 .. n - 1
  <2> HIDE DEF q
  <2> QED  BY <1>0, PlaceOf
<1>4. q = n * u + (q % n)
  BY <1>2, <1>3
<1> QED  BY <1>0, <1>3, <1>4

(* Slots of one turn have different places.                                *)
LEMMA PlacesDiffer ==
  ASSUME NEW p \in Int, NEW q \in Int, NEW n \in Nat, n > 0, p < q + n, q < p + n, p % n = q % n
  PROVE  p = q
<1> DEFINE d == p \div n
           e == q \div n
           a == p % n
<1>1. d \in Int /\ e \in Int /\ a \in Int /\ p = n * d + a /\ q = n * e + a
  BY PlaceOf, SlotBounds
<1> HIDE DEF d, e, a
<1>2. n * d \in Int /\ n * e \in Int
  BY <1>1
<1>3. ~(d < e)
  <2> SUFFICES ASSUME d < e PROVE FALSE
    OBVIOUS
  <2>1. n * d + n <= n * e
    BY <1>1, TimesMonotone
  <2> QED  BY <1>1, <1>2, <2>1
<1>4. ~(e < d)
  <2> SUFFICES ASSUME e < d PROVE FALSE
    OBVIOUS
  <2>1. n * e + n <= n * d
    BY <1>1, TimesMonotone
  <2> QED  BY <1>1, <1>2, <2>1
<1>5. d = e
  BY <1>1, <1>3, <1>4
<1> QED  BY <1>1, <1>5

LEMMA PlaceAdds ==
  ASSUME NEW x \in Int, NEW k \in Int, NEW n \in Nat, n > 0
  PROVE  ((x % n) + k) % n = (x + k) % n
<1> DEFINE a == x % n
           d == x \div n
           y == a + k
           b == y % n
           e == y \div n
<1>1. a \in Int /\ d \in Int /\ x = n * d + a
  BY PlaceOf, SlotBounds
<1>2. y \in Int
  BY <1>1
<1> HIDE DEF a, d
<1>3. b \in 0 .. n - 1 /\ e \in Int /\ y = n * e + b
  <2> HIDE DEF y
  <2> QED  BY <1>2, PlaceOf, SlotBounds
<1> HIDE DEF b, e
<1>4. x + k = n * (d + e) + b
  <2>1. n * (d + e) = n * d + n * e /\ n * d \in Int /\ n * e \in Int
    BY <1>1, <1>3
  <2> QED  BY <1>1, <1>3, <2>1 DEF y
<1>5. d + e \in Int
  BY <1>1, <1>3
<1>6. (n * (d + e) + b) % n = b
  <2> DEFINE u == d + e
  <2> HIDE DEF u
  <2> QED  BY <1>3, <1>5, PlaceIs DEF u
<1> QED  BY <1>4, <1>6 DEF b, y, a

(* Every place is met in one turn.                                         *)
LEMMA PlacesMet ==
  ASSUME NEW x \in Int, NEW q \in Int, NEW n \in Nat, n > 0
  PROVE  \E k \in 1 .. n : (x + k) % n = q % n
<1> DEFINE a == q % n
           b == x % n
           d == x \div n
<1>1. a \in 0 .. n - 1 /\ b \in 0 .. n - 1 /\ d \in Int /\ x = n * d + b
  BY PlaceOf, SlotBounds
<1> HIDE DEF a, b, d
<1>2. CASE a > b
  <2>1. a - b \in 1 .. n /\ x + (a - b) = n * d + a
    <3>1. n * d \in Int
      BY <1>1
    <3> QED  BY <1>1, <1>2, <3>1
  <2>2. (n * d + a) % n = a
    BY <1>1, PlaceIs
  <2>3. (x + (a - b)) % n = a
    BY <2>1, <2>2
  <2> QED  BY <2>1, <2>3 DEF a
<1>3. CASE a <= b
  <2>1. a - b + n \in 1 .. n /\ x + (a - b + n) = n * (d + 1) + a /\ d + 1 \in Int
    <3>1. n * d \in Int /\ n * (d + 1) = n * d + n
      BY <1>1
    <3> QED  BY <1>1, <1>3, <3>1
  <2>2. (n * (d + 1) + a) % n = a
    <3> DEFINE u == d + 1
    <3> HIDE DEF u
    <3> QED  BY <2>1, <1>1, PlaceIs DEF u
  <2>3. (x + (a - b + n)) % n = a
    BY <2>1, <2>2
  <2> QED  BY <2>1, <2>3 DEF a
<1> QED  BY <1>1, <1>2, <1>3

(* A table row m of measurements is what a ring keeps, when the last turn  *)
(* of the ring holds the slots of m and nothing was measured after it; a   *)
(* new ring goes with an empty row.                                        *)
Tally == [n : Nat, sum : Int, max : Int]
Ring == [last : Nat, count : Nat, data : [0..Entries - 1 -> Tally]]
Row == [0..EndTime -> Tally]
EmptyRow == [q \in 0..EndTime |-> Nan]
Fresh(ring, m) == ring.last = 0 /\ (\A i \in 0..Entries - 1 : ring.data[i] = Nan) /\ (\A q \in 0..EndTime : m[q] = Nan)
NoneAfter(m, last) == \A q \in 0..EndTime : q > last => m[q] = Nan
LastTurn(ring, m, last) == \A q \in 0..EndTime : last - Entries < q /\ q <= last => ring.data[q % Entries] = m[q]
CountKept(ring, m, last) == m[last] # Nan => ring.count = m[last].n
Kept(ring, m, r) ==
  LET last == ring.last \div r IN
  /\ ring.last >= StartTime /\ NoneAfter(m, last) /\ LastTurn(ring, m, last) /\ CountKept(ring, m, last)
RingOK(ring, m, r, clock) ==
  /\ ring \in Ring /\ m \in Row /\ ring.last <= clock
  /\ \A q \in 0..EndTime : m[q].n = 0 => m[q] = Nan
  /\ Fresh(ring, m) \/ Kept(ring, m, r)

LEMMA NanIsTally == Nan \in Tally /\ Nan.n = 0
BY DEF Nan, Tally

(* The slot of a time of the clock lies in the table, beyond one turn.     *)
LEMMA SlotInTable ==
  ASSUME NEW t \in StartTime..EndTime, NEW r \in Resolutions
  PROVE  /\ r \in Nat /\ r > 0 /\ t \in Nat /\ Entries \in Nat /\ Entries > 0 /\ t > Entries * r
         /\ t \div r \in 0..EndTime /\ t \div r >= Entries
<1>1. r \in Nat /\ r > 0 /\ t \in Nat /\ Entries \in Nat /\ Entries > 0 /\ EndTime \in Nat /\ t <= EndTime
  BY RrdAssumption
<1>2. Entries * r \in Nat /\ t > Entries * r
  BY <1>1, RrdAssumption
<1> DEFINE d == t \div r
           E == Entries
<1>3. d \in Int /\ r * d <= t /\ t < r * d + r
  BY <1>1, SlotBounds
<1>4. E \in Nat /\ t > E * r
  BY <1>1, <1>2
<1>d. t \div r = d
  OBVIOUS
<1> HIDE DEF d, E
<1>5. ~(d < E)
  <2> SUFFICES ASSUME d < E PROVE FALSE
    OBVIOUS
  <2>1. r * d + r <= r * E
    BY <1>1, <1>3, <1>4, TimesMonotone
  <2>2. r * E = E * r /\ r * d \in Int /\ r * E \in Int
    BY <1>1, <1>3, <1>4
  <2> QED  BY <1>1, <1>3, <1>4, <2>1, <2>2
<1>6. d >= E /\ d >= 0
  BY <1>3, <1>4, <1>5
<1>7. d <= r * d
  BY <1>1, <1>3, <1>6
<1>8. d <= EndTime
  BY <1>1, <1>3, <1>6, <1>7
<1> QED  BY <1>1, <1>2, <1>3, <1>6, <1>8, <1>d DEF E

(* delete_old passes over the slots the new turn has no place for.         *)
LEMMA OldSlots ==
  ASSUME NEW last \in Nat, NEW t \in Nat, NEW r \in Nat, r > 0, NEW j \in Nat, Entries \in Nat
  PROVE  last - Entries * r + j * r < MinTime(t, r) <=> j <= t \div r - last \div r
<1> DEFINE E == Entries
           L == last \div r
           T == t \div r
<1>1. L \in Int /\ r * L <= last /\ last < r * L + r /\ T \in Int
  BY SlotBounds
<1>2. (t - E * r) \div r = T - E
  <2> HIDE DEF E
  <2> QED  BY SlotShift DEF E
<1>3. MinTime(t, r) = (T - E + 1) * r
  BY <1>2 DEF MinTime
<1>d. last \div r = L /\ t \div r = T /\ E = Entries /\ E \in Nat
  OBVIOUS
<1> HIDE DEF E, L, T
<1>4. (T - E + 1) * r = r * (T + 1) - E * r /\ E * r \in Int /\ r * (T + 1) \in Int /\ j * r \in Int
  BY <1>1, <1>d
<1>5. last - E * r + j * r < MinTime(t, r) <=> last + j * r < r * (T + 1)
  BY <1>3, <1>4, <1>d
<1>6. r * (L + j) = r * L + j * r /\ r * L \in Int /\ r * (L + j) \in Int
  BY <1>1
<1>7. ASSUME j <= T - L PROVE last + j * r < r * (T + 1)
  <2> DEFINE a == L + j
             b == T + 1
  <2>1. a < b /\ a \in Int /\ b \in Int
    BY <1>1, <1>7
  <2>2. r * a + r <= r * b
    <3> HIDE DEF a, b
    <3> QED  BY <2>1, TimesMonotone
  <2> QED  BY <1>1, <1>4, <1>6, <2>2
<1>8. ASSUME ~(j <= T - L) PROVE ~(last + j * r < r * (T + 1))
  <2> DEFINE a == L + j
             b == T + 1
  <2>1. b <= a /\ a \in Int /\ b \in Int
    BY <1>1, <1>8
  <2>2. r * b <= r * a
    <3> HIDE DEF a, b
    <3>1. CASE a = b
      BY <3>1, <2>1
    <3>2. CASE b < a
      <4>1. r * b + r <= r * a /\ r * b \in Int /\ r * a \in Int
        BY <2>1, <3>2, TimesMonotone
      <4> QED  BY <4>1
    <3> QED  BY <2>1, <3>1, <3>2
  <2> QED  BY <1>1, <1>4, <1>6, <2>2
<1> QED  BY <1>5, <1>7, <1>8, <1>d

(* The places delete_old clears, of slots counted from a turn before the   *)
(* slot of the last update.                                                *)
Gone(L, T, i) == \E k \in 1..Entries : k <= T - L /\ i = (L - Entries + k) % Entries
Aged(ring, d) == d \in Ring /\ d.last = ring.last /\ d.count = ring.count

LEMMA DeletedFresh ==
  ASSUME NEW ring \in Ring, NEW m, NEW t, NEW r, Fresh(ring, m), Entries \in Nat
  PROVE  Aged(ring, delete_old(ring, t, r)) /\ Fresh(delete_old(ring, t, r), m)
<1> DEFINE oldest == IF ring.last > Entries * r THEN ring.last - Entries * r ELSE 0
           old == {k \in 1..Entries : \A j \in 1..k : oldest + j * r < MinTime(t, r)}
           gone == {(Index(oldest, r) + k) % Entries : k \in old}
           data == [i \in DOMAIN ring.data |-> IF i \in gone THEN Nan ELSE ring.data[i]]
<1>1. delete_old(ring, t, r) = [ring EXCEPT !.data = data]
  BY DEF delete_old
<1> HIDE DEF gone
<1>2. data \in [0..Entries - 1 -> Tally] /\ \A i \in 0..Entries - 1 : data[i] = Nan
  BY NanIsTally DEF Ring, Fresh
<1> HIDE DEF data
<1> QED  BY <1>1, <1>2 DEF Ring, Fresh, Aged

LEMMA DeletedKept ==
  ASSUME NEW ring \in Ring, NEW t \in StartTime..EndTime, NEW r \in Resolutions,
         ring.last >= StartTime, ring.last <= t
  PROVE  /\ Aged(ring, delete_old(ring, t, r))
         /\ \A i \in 0..Entries - 1 :
              delete_old(ring, t, r).data[i] = IF Gone(ring.last \div r, t \div r, i) THEN Nan ELSE ring.data[i]
<1> DEFINE oldest == IF ring.last > Entries * r THEN ring.last - Entries * r ELSE 0
           old == {k \in 1..Entries : \A j \in 1..k : oldest + j * r < MinTime(t, r)}
           gone == {(Index(oldest, r) + k) % Entries : k \in old}
           data == [i \in DOMAIN ring.data |-> IF i \in gone THEN Nan ELSE ring.data[i]]
           last == ring.last
           L == last \div r
           T == t \div r
<1>1. delete_old(ring, t, r) = [ring EXCEPT !.data = data]
  BY DEF delete_old
<1>2. last \in Nat /\ last \in StartTime..EndTime
  <2>1. last \in Nat
    BY DEF Ring
  <2> QED  BY <2>1, RrdAssumption
<1>3. r \in Nat /\ r > 0 /\ t \in Nat /\ Entries \in Nat /\ Entries > 0 /\ last > Entries * r
  <2> HIDE DEF last
  <2> QED  BY <1>2, SlotInTable
<1>4. oldest = last - Entries * r /\ oldest \in Int
  BY <1>2, <1>3
<1>5. L \in Int /\ T \in Int
  <2> HIDE DEF last
  <2> QED  BY <1>2, <1>3, SlotBounds
<1>6. \A k \in 1..Entries : k \in old <=> k <= T - L
  <2> TAKE k \in 1..Entries
  <2>1. \A j \in 1..k : oldest + j * r < MinTime(t, r) <=> j <= T - L
    <3> TAKE j \in 1..k
    <3>1. j \in Nat
      BY <1>3
    <3>2. last - Entries * r + j * r < MinTime(t, r) <=> j <= T - L
      <4> HIDE DEF last
      <4> QED  BY <1>2, <1>3, <3>1, OldSlots
    <3> QED  BY <3>2, <1>4
  <2> HIDE DEF oldest, T, L
  <2>2. k \in 1..k /\ \A j \in 1..k : j <= k /\ j \in Int
    BY <1>3
  <2>3. ASSUME k <= T - L, NEW j \in 1..k PROVE oldest + j * r < MinTime(t, r)
    <3>1. j <= T - L
      BY <2>2, <2>3, <1>5, <1>3
    <3> QED  BY <3>1, <2>1
  <2>4. ASSUME k \in old PROVE k <= T - L
    BY <2>1, <2>2, <2>4
  <2> QED  BY <2>3, <2>4
<1>7. Index(oldest, r) = (L - Entries) % Entries
  <2>1. (last - Entries * r) \div r = L - Entries
    <3> HIDE DEF last
    <3> QED  BY <1>2, <1>3, SlotShift
  <2> QED  BY <2>1, <1>4 DEF Index
<1>8. \A k \in 1..Entries : (Index(oldest, r) + k) % Entries = (L - Entries + k) % Entries
  <2> TAKE k \in 1..Entries
  <2> DEFINE x == L - Entries
  <2>1. x \in Int /\ k \in Int
    BY <1>3, <1>5
  <2>2. ((x % Entries) + k) % Entries = (x + k) % Entries
    <3> HIDE DEF x
    <3> QED  BY <2>1, <1>3, PlaceAdds
  <2> QED  BY <2>2, <1>7
<1> HIDE DEF oldest, L, T, last
<1>9. \A i : i \in gone <=> Gone(L, T, i)
  <2>0. \A k : k \in old => k \in 1..Entries
    OBVIOUS
  <2> HIDE DEF old
  <2>1. ASSUME NEW i, i \in gone PROVE Gone(L, T, i)
    <3>1. PICK k \in old : i = (Index(oldest, r) + k) % Entries
      BY <2>1
    <3>2. k \in 1..Entries /\ k <= T - L /\ i = (L - Entries + k) % Entries
      BY <3>1, <2>0, <1>6, <1>8
    <3> QED  BY <3>2 DEF Gone
  <2>2. ASSUME NEW i, Gone(L, T, i) PROVE i \in gone
    <3>1. PICK k \in 1..Entries : k <= T - L /\ i = (L - Entries + k) % Entries
      BY <2>2 DEF Gone
    <3>2. k \in old /\ i = (Index(oldest, r) + k) % Entries
      BY <3>1, <1>6, <1>8
    <3> QED  BY <3>2
  <2> QED  BY <2>1, <2>2
<1> HIDE DEF gone
<1>10. data \in [0..Entries - 1 -> Tally]
  BY NanIsTally DEF Ring
<1>11. \A i \in 0..Entries - 1 : data[i] = IF Gone(L, T, i) THEN Nan ELSE ring.data[i]
  BY <1>9 DEF Ring
<1> HIDE DEF data
<1>12. delete_old(ring, t, r).data = data /\ Aged(ring, delete_old(ring, t, r))
  BY <1>1, <1>10 DEF Ring, Aged
<1> QED  BY <1>11, <1>12 DEF L, T, last

(* After delete_old the ring holds the turn that ends with the new slot.   *)
LEMMA AgedTurn ==
  ASSUME NEW ring, NEW m, NEW t \in StartTime..EndTime, NEW r \in Resolutions, RingOK(ring, m, r, t)
  PROVE  LastTurn(delete_old(ring, t, r), m, t \div r)
<1>0. r \in Nat /\ r > 0 /\ t \in Nat /\ Entries \in Nat /\ Entries > 0 /\ EndTime \in Nat
  BY SlotInTable, RrdAssumption
<1>1. ring \in Ring /\ ring.last <= t
  BY DEF RingOK
<1>2. CASE Fresh(ring, m)
  <2>1. Fresh(delete_old(ring, t, r), m)
    BY <1>0, <1>1, <1>2, DeletedFresh
  <2>2. \A q \in 0..EndTime : q % Entries \in 0..Entries - 1
    BY <1>0, PlaceOf
  <2> QED  BY <2>1, <2>2 DEF LastTurn, Fresh
<1>3. CASE Kept(ring, m, r)
  <2> DEFINE L == ring.last \div r
             T == t \div r
             E == Entries
             d == delete_old(ring, t, r)
  <2>1. ring.last >= StartTime /\ NoneAfter(m, L) /\ LastTurn(ring, m, L)
    BY <1>3 DEF Kept
  <2>2. \A i \in 0..E - 1 : d.data[i] = IF Gone(L, T, i) THEN Nan ELSE ring.data[i]
    BY <1>1, <2>1, DeletedKept
  <2>3. ring.last \in Nat
    BY <1>1 DEF Ring
  <2>4. L \in Int /\ T \in Int /\ L <= T
    BY <1>0, <1>1, <2>3, SlotBounds, SlotMonotone
  <2>d. d = delete_old(ring, t, r) /\ T = t \div r /\ E = Entries /\ E \in Nat /\ E > 0
    BY <1>0
  <2> HIDE DEF L, T, E, d
  <2> SUFFICES ASSUME NEW q \in 0..EndTime, T - E < q, q <= T
               PROVE  d.data[q % E] = m[q]
    BY <2>d DEF LastTurn
  <2>5. q \in Int /\ q % E \in 0..E - 1
    BY <1>0, <2>d, PlaceOf
  <2>6. CASE q <= L
    <3>1. L - E < q
      BY <2>4, <2>5, <2>d
    <3>2. ring.data[q % E] = m[q]
      BY <2>1, <2>6, <3>1, <2>d DEF LastTurn
    <3>3. ~Gone(L, T, q % E)
      <4> SUFFICES ASSUME NEW k \in 1..E, k <= T - L, q % E = (L - E + k) % E
                   PROVE  FALSE
        BY <2>d DEF Gone
      <4> DEFINE p == L - E + k
      <4>1. p \in Int /\ p < q /\ p < q + E /\ q < p + E
        BY <2>4, <2>5, <2>6, <2>d
      <4>2. p % E = q % E
        OBVIOUS
      <4> HIDE DEF p
      <4>3. p = q
        BY <4>1, <4>2, <2>5, <2>d, PlacesDiffer
      <4> QED  BY <4>1, <4>3
    <3> QED  BY <2>2, <2>5, <3>2, <3>3
  <2>7. CASE q > L
    <3>1. m[q] = Nan
      BY <2>1, <2>7 DEF NoneAfter
    <3>2. Gone(L, T, q % E)
      <4> DEFINE x == L - E
      <4>1. x \in Int
        BY <2>4, <2>d
      <4>2. PICK k \in 1..E : (x + k) % E = q % E
        <5> HIDE DEF x
        <5> QED  BY <4>1, <2>5, <2>d, PlacesMet
      <4>3. k <= T - L
        <5> SUFFICES ASSUME ~(k <= T - L) PROVE FALSE
          OBVIOUS
        <5> DEFINE p == x + k
        <5>1. p \in Int /\ p < q /\ p < q + E /\ q < p + E
          BY <2>4, <2>5, <2>7, <2>d
        <5>2. p % E = q % E
          BY <4>2
        <5> HIDE DEF p
        <5>3. p = q
          BY <5>1, <5>2, <2>5, <2>d, PlacesDiffer
        <5> QED  BY <5>1, <5>3
      <4> QED  BY <4>2, <4>3, <2>d DEF Gone
    <3> QED  BY <2>2, <2>5, <3>1, <3>2
  <2> QED  BY <2>4, <2>5, <2>6, <2>7
<1> QED  BY <1>2, <1>3 DEF RingOK

(* The new value reaches its slot: it joins what was measured in it.       *)
Renewed(new, d, x, t, v, i) ==
  /\ new \in Ring /\ new.last = t /\ new.count = x.n + 1
  /\ new.data = [d.data EXCEPT ![i] = Joined(x, v)]
  /\ Joined(x, v) \in Tally
LEMMA NewValue ==
  ASSUME NEW d \in Ring, NEW x \in Tally, NEW t \in Nat, NEW r \in Nat, r > 0, NEW v \in Int,
         d.last <= t, d.data[Index(t, r)] = x, Index(t, r) \in 0..Entries - 1,
         x.n = 0 => x = Nan,
         x # Nan => d.last \div r = t \div r /\ d.count = x.n
  PROVE  Renewed(compute_new_value(d, t, v, r), d, x, t, v, Index(t, r))
<1> DEFINE i == Index(t, r)
           new == compute_new_value(d, t, v, r)
<1>0. d.last \in Nat /\ d.count \in Nat /\ d.data \in [0..Entries - 1 -> Tally]
  BY DEF Ring
<1>1. Joined(x, v) \in Tally
  BY DEF Joined, Tally
<1> DEFINE data == [d.data EXCEPT ![i] = Joined(x, v)]
<1>4. data \in [0..Entries - 1 -> Tally]
  BY <1>0, <1>1
<1>2. CASE x = Nan
  <2>1. StartsSlot(d, t, r)
    BY <1>2 DEF StartsSlot
  <2>2. Joined(x, v) = [n |-> 1, sum |-> v, max |-> v]
    BY <1>2 DEF Joined, Nan
  <2>3. new = [d EXCEPT !.data[i] = Joined(x, v), !.count = 1, !.last = t]
    BY <2>1, <2>2 DEF compute_new_value
  <2>4. x.n = 0 /\ 1 \in Nat /\ 1 = x.n + 1
    BY <1>2 DEF Nan
  <2>5. new = [d EXCEPT !.data = data, !.count = 1, !.last = t]
    BY <2>3
  <2> HIDE DEF data, new
  <2>6. new \in Ring /\ new.last = t /\ new.count = 1 /\ new.data = data
    BY <1>4, <2>5 DEF Ring
  <2> QED  BY <1>1, <2>4, <2>6 DEF data, i, new, Renewed
<1>3. CASE x # Nan
  <2>1. d.last \div r = t \div r /\ d.count = x.n /\ x.n # 0 /\ x.n \in Nat
    BY <1>3 DEF Tally
  <2>2. t - d.last <= r /\ ~(t < d.last)
    <3> DEFINE a == t \div r
               l == d.last
    <3>1. a \in Int /\ r * a <= l /\ t < r * a + r /\ r * a \in Int
      BY <1>0, <2>1, SlotBounds
    <3> HIDE DEF a
    <3> QED  BY <3>1, <1>0
  <2>3. ~StartsSlot(d, t, r)
    <3>1. Index(t, r) = Index(d.last, r)
      BY <2>1 DEF Index
    <3>2. ~(t - d.last > r)
      BY <1>0, <2>2
    <3> QED  BY <1>3, <2>1, <2>2, <3>1, <3>2 DEF StartsSlot
  <2>4. Joined(x, v) = [n |-> d.count + 1, sum |-> x.sum + v, max |-> IF x.max > v THEN x.max ELSE v]
    BY <2>1 DEF Joined
  <2>5. new = [d EXCEPT !.data[i] = Joined(x, v), !.count = d.count + 1, !.last = t]
    BY <2>3, <2>4 DEF compute_new_value
  <2>6. new = [d EXCEPT !.data = data, !.count = d.count + 1, !.last = t]
    BY <2>5
  <2>7. d.count + 1 \in Nat
    BY <1>0
  <2> DEFINE c == d.count + 1
  <2>8. c \in Nat /\ new = [d EXCEPT !.data = data, !.count = c, !.last = t]
    BY <2>6, <2>7
  <2> HIDE DEF data, new, c
  <2>9. new \in Ring /\ new.last = t /\ new.count = c /\ new.data = data
    BY <1>4, <2>8 DEF Ring
  <2> QED  BY <1>1, <2>1, <2>9 DEF data, i, new, c, Renewed
<1> QED  BY <1>2, <1>3

(* An update leaves a ring that keeps the row with the new value noted.    *)
LEMMA UpdatedRing ==
  ASSUME NEW ring, NEW m, NEW t \in StartTime..EndTime, NEW r \in Resolutions, NEW v \in Int,
         RingOK(ring, m, r, t)
  PROVE  LET new == compute_new_value(delete_old(ring, t, r), t, v, r) IN
         RingOK(new, [m EXCEPT ![t \div r] = Joined(@, v)], r, t) /\ new.last = t
<1> DEFINE d == delete_old(ring, t, r)
           T == t \div r
           E == Entries
           new == compute_new_value(d, t, v, r)
           n == [m EXCEPT ![T] = Joined(@, v)]
<1>0. r \in Nat /\ r > 0 /\ t \in Nat /\ E \in Nat /\ E > 0 /\ EndTime \in Nat /\ T \in 0..EndTime /\ T \in Int
  BY SlotInTable, RrdAssumption
<1>1. ring \in Ring /\ m \in Row /\ ring.last <= t /\ \A q \in 0..EndTime : m[q].n = 0 => m[q] = Nan
  BY DEF RingOK
<1>2. LastTurn(d, m, T)
  BY AgedTurn
<1>3. T % E \in 0..E - 1 /\ Index(t, r) = T % E
  <2> HIDE DEF T
  <2>1. T % E \in 0..E - 1
    BY <1>0, PlaceOf
  <2> QED  BY <2>1 DEF Index, T
<1>4. d.data[T % E] = m[T]
  BY <1>0, <1>2 DEF LastTurn
<1>5. /\ Aged(ring, d) /\ NoneAfter(m, T)
      /\ m[T] # Nan => ring.last \div r = T /\ ring.count = m[T].n
  <2>1. CASE Fresh(ring, m)
    <3>1. Aged(ring, d)
      BY <1>0, <1>1, <2>1, DeletedFresh
    <3> HIDE DEF d, T
    <3> QED  BY <1>0, <2>1, <3>1 DEF Fresh, NoneAfter
  <2>2. CASE Kept(ring, m, r)
    <3> DEFINE L == ring.last \div r
    <3>1. ring.last >= StartTime /\ NoneAfter(m, L) /\ CountKept(ring, m, L)
      BY <2>2 DEF Kept
    <3>2. Aged(ring, d)
      BY <1>1, <3>1, DeletedKept
    <3>3. ring.last \in Nat
      BY <1>1 DEF Ring
    <3>4. L \in Int /\ L <= T
      BY <1>0, <1>1, <3>3, SlotBounds, SlotMonotone
    <3>5. NoneAfter(m, T)
      <4> HIDE DEF L, T
      <4> QED  BY <1>0, <3>1, <3>4 DEF NoneAfter
    <3>6. ASSUME m[T] # Nan PROVE L = T /\ ring.count = m[T].n
      <4>1. ~(T > L)
        <5> HIDE DEF L, T
        <5> QED  BY <1>0, <3>1, <3>6 DEF NoneAfter
      <4>2. L = T
        <5> HIDE DEF L, T
        <5> QED  BY <1>0, <3>4, <4>1
      <4> QED  BY <3>1, <3>6, <4>2 DEF CountKept
    <3> QED  BY <3>2, <3>5, <3>6
  <2> QED  BY <2>1, <2>2 DEF RingOK
<1>6. d \in Ring /\ d.last = ring.last /\ d.count = ring.count
  BY <1>5 DEF Aged
<1>7. m[T] \in Tally /\ (m[T].n = 0 => m[T] = Nan)
  BY <1>0, <1>1 DEF Row
<1> DEFINE x == m[T]
           j == Joined(x, v)
<1>8. /\ new \in Ring /\ new.last = t /\ new.count = x.n + 1
      /\ new.data = [d.data EXCEPT ![T % E] = j] /\ j \in Tally
  <2>1. x \in Tally /\ (x.n = 0 => x = Nan) /\ d.data[Index(t, r)] = x /\ Index(t, r) \in 0..E - 1
    BY <1>3, <1>4, <1>7
  <2>2. x # Nan => d.last \div r = t \div r /\ d.count = x.n
    BY <1>5, <1>6
  <2>3. d.last <= t
    BY <1>1, <1>6
  <2> HIDE DEF d, x
  <2>4. Renewed(compute_new_value(d, t, v, r), d, x, t, v, Index(t, r))
    BY <1>0, <1>6, <2>1, <2>2, <2>3, NewValue
  <2> QED  BY <2>4, <1>3 DEF Renewed
<1>9. j.n = x.n + 1 /\ j.n \in Nat /\ j # Nan /\ j.n # 0
  BY <1>7 DEF Joined, Tally, Nan
<1>10. n = [m EXCEPT ![T] = j]
  OBVIOUS
<1>11. d.data \in [0..E - 1 -> Tally]
  BY <1>6 DEF Ring
<1>d. T = t \div r /\ E = Entries
  OBVIOUS
<1> HIDE DEF d, T, E, new, n, x, j
<1>12. n \in Row /\ n[T] = j /\ \A q \in 0..EndTime : q # T => n[q] = m[q]
  BY <1>0, <1>1, <1>8, <1>10 DEF Row
<1>13. \A q \in 0..EndTime : n[q].n = 0 => n[q] = Nan
  BY <1>1, <1>9, <1>12
<1>14. NoneAfter(n, T)
  BY <1>0, <1>5, <1>12 DEF NoneAfter
<1>15. LastTurn(new, n, T)
  <2> SUFFICES ASSUME NEW q \in 0..EndTime, T - E < q, q <= T
               PROVE  new.data[q % E] = n[q]
    BY <1>d DEF LastTurn
  <2>1. q \in Int /\ q % E \in 0..E - 1
    BY <1>0, PlaceOf
  <2>2. CASE q = T
    BY <2>2, <1>8, <1>11, <1>12, <1>3
  <2>3. CASE q # T
    <3>1. d.data[q % E] = m[q]
      BY <1>2, <1>d DEF LastTurn
    <3>2. q % E # T % E
      <4> SUFFICES ASSUME q % E = T % E PROVE FALSE
        OBVIOUS
      <4>1. q < T + E /\ T < q + E
        BY <1>0, <2>1
      <4> QED  BY <1>0, <2>1, <2>3, <4>1, PlacesDiffer
    <3> QED  BY <2>1, <2>3, <3>1, <3>2, <1>8, <1>11, <1>12
  <2> QED  BY <2>2, <2>3
<1>16. CountKept(new, n, T)
  BY <1>8, <1>9, <1>12 DEF CountKept
<1>17. new.last >= StartTime /\ new.last <= t
  BY <1>8, <1>0, RrdAssumption
<1>18. Kept(new, n, r)
  BY <1>8, <1>14, <1>15, <1>16, <1>17, <1>d DEF Kept
<1>19. RingOK(new, n, r, t)
  BY <1>8, <1>12, <1>13, <1>17, <1>18 DEF RingOK
<1> QED  BY <1>8, <1>19 DEF new, n, d, T

(* What a ring shows at its last update and a little later.                *)
Shows(ring, m, u, r, k) ==
  LET s == r * (u \div r + 1) - r * Entries + k * r
  IN extract_data(ring, u, r)[k] = IF s \div r \in 0..EndTime THEN m[s \div r] ELSE Nan
LEMMA ShownRing ==
  ASSUME NEW ring, NEW m, NEW t \in StartTime..EndTime, NEW r \in Resolutions, NEW late \in Nat,
         RingOK(ring, m, r, t), ring.last = t, NEW k \in 0..Entries - 1
  PROVE  Shows(ring, m, t + late, r, k)
<1> DEFINE u == t + late
           U == u \div r
           T == t \div r
           E == Entries
           q == U + 1 - E + k
           s == r * (U + 1) - r * E + k * r
<1>0. /\ r \in Nat /\ r > 0 /\ t \in Nat /\ E \in Nat /\ E > 0 /\ EndTime \in Nat
      /\ T \in 0..EndTime /\ T \in Int /\ T >= E /\ k \in Int /\ StartTime \in Nat /\ StartTime > 0
  <2>1. r \in Nat /\ r > 0 /\ t \in Nat /\ E \in Nat /\ E > 0 /\ T \in 0..EndTime /\ T >= E
    BY SlotInTable
  <2>2. EndTime \in Nat /\ StartTime \in Nat /\ StartTime > E * r /\ k \in Int
    BY <2>1, RrdAssumption
  <2>3. E * r > 0 /\ E * r \in Nat
    <3> HIDE DEF E
    <3> QED  BY <2>1
  <2> HIDE DEF E, T
  <2> QED  BY <2>1, <2>2, <2>3
<1>1. U \in Int /\ U >= T
  BY <1>0, SlotBounds, SlotMonotone
<1>2. NoneAfter(m, T) /\ LastTurn(ring, m, T)
  <2>1. ring.last # 0
    BY <1>0
  <2> QED  BY <2>1 DEF RingOK, Fresh, Kept
<1>3. extract_data(ring, u, r)[k] = IF s < r * T - r * E \/ s > r * T THEN Nan ELSE ring.data[(s \div r) % E]
  BY DEF extract_data, Index
<1>d. E = Entries
  OBVIOUS
<1> HIDE DEF U, T, E
<1>4. q \in Int /\ s = r * q
  BY <1>0, <1>1
<1>5. s \div r = q
  <2> HIDE DEF q, s
  <2> QED  BY <1>0, <1>4, SlotOfStart
<1>6. q >= 0 /\ q > T - E
  BY <1>0, <1>1, <1>d
<1>7. r * T \in Int /\ r * E \in Int /\ r * q \in Int /\ s \in Int
  BY <1>0, <1>4
<1>8. CASE q > T
  <2>1. s > r * T
    <3> HIDE DEF q, s
    <3>1. r * T + r <= r * q
      BY <1>0, <1>4, <1>8, TimesMonotone
    <3> QED  BY <1>0, <1>4, <1>7, <3>1
  <2>2. extract_data(ring, u, r)[k] = Nan
    BY <1>3, <2>1
  <2>3. q \in 0..EndTime => m[q] = Nan
    BY <1>2, <1>8 DEF NoneAfter
  <2> QED  BY <1>5, <2>2, <2>3 DEF U, E, Shows
<1>9. CASE q <= T
  <2>1. ~(s > r * T) /\ ~(s < r * T - r * E)
    <3> DEFINE z == T - E
    <3>1. z \in Int /\ z < q /\ r * z = r * T - r * E
      BY <1>0, <1>6
    <3> HIDE DEF z, q, s
    <3>2. r * z + r <= r * q /\ r * z \in Int
      BY <1>0, <1>4, <3>1, TimesMonotone
    <3>3. r * q <= r * T
      <4>1. CASE q = T
        BY <4>1, <1>7
      <4>2. CASE q < T
        <5>1. r * q + r <= r * T
          BY <1>0, <1>4, <4>2, TimesMonotone
        <5> QED  BY <5>1, <1>0, <1>7
      <4> QED  BY <1>9, <4>1, <4>2, <1>0, <1>4
    <3> QED  BY <1>0, <1>4, <1>7, <3>1, <3>2, <3>3
  <2>2. q \in 0..EndTime
    BY <1>0, <1>4, <1>6, <1>9
  <2>3. ring.data[q % E] = m[q]
    BY <1>2, <1>6, <1>9, <2>2, <1>d DEF LastTurn
  <2>4. extract_data(ring, u, r)[k] = m[q]
    BY <1>3, <1>5, <2>1, <2>3
  <2> QED  BY <1>5, <2>2, <2>4 DEF U, E, Shows
<1> QED  BY <1>0, <1>4, <1>8, <1>9

LEMMA FreshRing ==
  ASSUME NEW t \in Nat, NEW r
  PROVE  RingOK(NewRing, EmptyRow, r, t)
<1>1. Entries \in Nat /\ EndTime \in Nat
  BY RrdAssumption
<1>2. NewRing \in Ring /\ EmptyRow \in Row
  BY NanIsTally DEF NewRing, EmptyRow, Ring, Row
<1>3. Fresh(NewRing, EmptyRow) /\ NewRing.last = 0
  BY DEF Fresh, NewRing, EmptyRow
<1>4. \A q \in 0..EndTime : EmptyRow[q] = Nan
  BY DEF EmptyRow
<1> QED  BY <1>1, <1>2, <1>3, <1>4 DEF RingOK

LEMMA RingLater ==
  ASSUME NEW ring, NEW m, NEW r, NEW c \in Int, NEW t \in Int, c <= t, RingOK(ring, m, r, c)
  PROVE  RingOK(ring, m, r, t)
<1>1. ring.last \in Nat /\ ring.last <= c
  BY DEF RingOK, Ring
<1>2. ring.last <= t
  BY <1>1
<1> QED  BY <1>2 DEF RingOK

-----------------------------------------------------------------------------
(* The rings in memory keep what was measured and were updated last now;   *)
(* the ones in the file keep what was saved, up to some time before.       *)
CachedOK ==
  rrdCache # NoRrd =>
    \A r \in Resolutions : RingOK(rrdCache[r], measured[r], r, rrdClock) /\ rrdCache[r].last = rrdClock
SavedOK == saved # NoRrd => \A r \in Resolutions : RingOK(saved[r], seenSaved[r], r, rrdClock)
UnsavedOK == saved = NoRrd => \A r \in Resolutions : seenSaved[r] = EmptyRow
RrdInv == rrdClock \in StartTime..EndTime /\ CachedOK /\ SavedOK /\ UnsavedOK

LEMMA RrdInitInv == RrdInit => RrdInv
<1> SUFFICES ASSUME RrdInit PROVE RrdInv
  OBVIOUS
<1>1. rrdClock \in StartTime..EndTime
  BY RrdAssumption DEF RrdInit
<1>2. rrdCache = NoRrd /\ saved = NoRrd /\ \A r \in Resolutions : seenSaved[r] = EmptyRow
  BY DEF RrdInit, Nothing, EmptyRow
<1> QED  BY <1>1, <1>2 DEF RrdInv, CachedOK, SavedOK, UnsavedOK

(* The rings an update starts from, with the table they keep.              *)
LEMMA OldRings ==
  ASSUME RrdInv, NEW t \in StartTime..EndTime, rrdClock <= t, NEW r \in Resolutions
  PROVE  RingOK((IF rrdCache # NoRrd THEN rrdCache ELSE IF saved # NoRrd THEN saved ELSE NewRrd)[r],
                (IF rrdCache # NoRrd THEN measured ELSE seenSaved)[r], r, t)
<1>1. rrdClock \in Int /\ t \in Int /\ t \in Nat
  BY RrdAssumption DEF RrdInv
<1>2. CASE rrdCache # NoRrd
  <2>1. RingOK(rrdCache[r], measured[r], r, rrdClock)
    BY <1>2 DEF RrdInv, CachedOK
  <2> QED  BY <1>1, <1>2, <2>1, RingLater
<1>3. CASE rrdCache = NoRrd /\ saved # NoRrd
  <2>1. RingOK(saved[r], seenSaved[r], r, rrdClock)
    BY <1>3 DEF RrdInv, SavedOK
  <2> QED  BY <1>1, <1>3, <2>1, RingLater
<1>4. CASE rrdCache = NoRrd /\ saved = NoRrd
  <2>1. seenSaved[r] = EmptyRow /\ NewRrd[r] = NewRing
    BY <1>4 DEF RrdInv, UnsavedOK, NewRrd
  <2> QED  BY <1>1, <1>4, <2>1, FreshRing
<1> QED  BY <1>2, <1>3, <1>4

LEMMA UpdateValueInv ==
  ASSUME ~ClockMayGoBack, RrdInv, NEW v \in Measures, NEW save \in BOOLEAN, UpdateValue(v, save)
  PROVE  RrdInv'
<1> DEFINE old == IF rrdCache # NoRrd THEN rrdCache ELSE IF saved # NoRrd THEN saved ELSE NewRrd
           rows == IF rrdCache # NoRrd THEN measured ELSE seenSaved
           t == rrdClock'
           new == update(old, t, v)
           table == Noted(rows, t, v)
<1>1. t \in StartTime..EndTime /\ rrdClock <= t /\ v \in Int /\ rrdClock \in Int /\ t \in Int
  <2>1. PICK d \in Steps : (d < 0 => ClockMayGoBack) /\ rrdClock + d \in StartTime..EndTime /\ t = rrdClock + d
    BY DEF UpdateValue, Elapse
  <2> QED  BY <2>1, RrdAssumption DEF RrdInv
<1>2. /\ rrdCache' = new /\ measured' = table
      /\ IF save THEN saved' = new /\ seenSaved' = table ELSE UNCHANGED <<saved, seenSaved>>
  BY DEF UpdateValue
<1>3. \A r \in Resolutions : RingOK(old[r], rows[r], r, t)
  BY <1>1, OldRings
<1>e. t = rrdClock' /\ new = update(old, t, v) /\ table = Noted(rows, t, v)
  OBVIOUS
<1> HIDE DEF old, rows, t, new, table
<1>4. \A r \in Resolutions : RingOK(new[r], table[r], r, t) /\ new[r].last = t
  <2> TAKE r \in Resolutions
  <2> DEFINE ring == old[r]
             m == rows[r]
             nr == compute_new_value(delete_old(ring, t, r), t, v, r)
             n == [m EXCEPT ![t \div r] = Joined(@, v)]
  <2>1. new[r] = nr /\ table[r] = n
    BY <1>e DEF update, Noted
  <2>2. RingOK(ring, m, r, t)
    BY <1>3
  <2> HIDE DEF ring, m
  <2>3. RingOK(nr, n, r, t) /\ nr.last = t
    BY <1>1, <2>2, UpdatedRing
  <2> QED  BY <2>1, <2>3
<1>5. new = NoRrd => Resolutions = {}
  <2>1. DOMAIN new = Resolutions /\ DOMAIN NoRrd = {}
    BY <1>e DEF update, NoRrd
  <2> QED  BY <2>1
<1>6. CachedOK'
  BY <1>2, <1>4, <1>e DEF CachedOK
<1>7. ASSUME save PROVE SavedOK' /\ UnsavedOK'
  BY <1>2, <1>4, <1>5, <1>7, <1>e DEF SavedOK, UnsavedOK
<1>8. ASSUME ~save PROVE SavedOK' /\ UnsavedOK'
  <2>1. UNCHANGED <<saved, seenSaved>>
    BY <1>2, <1>8
  <2>2. SavedOK'
    <3> SUFFICES ASSUME saved # NoRrd, NEW r \in Resolutions PROVE RingOK(saved[r], seenSaved[r], r, t)
      BY <2>1, <1>e DEF SavedOK
    <3>1. RingOK(saved[r], seenSaved[r], r, rrdClock)
      BY DEF RrdInv, SavedOK
    <3> QED  BY <3>1, <1>1, RingLater
  <2> QED  BY <2>1, <2>2 DEF UnsavedOK, RrdInv
<1> QED  BY <1>1, <1>6, <1>7, <1>8, <1>e DEF RrdInv

LEMMA RrdNextInv ==
  ASSUME ~ClockMayGoBack, RrdInv, [RrdNext]_rrdVars
  PROVE  RrdInv'
<1>1. CASE \E v \in Measures, save \in BOOLEAN : UpdateValue(v, save)
  BY <1>1, UpdateValueInv
<1>2. CASE Restart
  BY <1>2 DEF Restart, RrdInv, CachedOK, SavedOK, UnsavedOK
<1>3. CASE UNCHANGED rrdVars
  BY <1>3 DEF rrdVars, RrdInv, CachedOK, SavedOK, UnsavedOK
<1> QED  BY <1>1, <1>2, <1>3 DEF RrdNext

LEMMA RrdInvShows == RrdInv => ShownWasMeasured
<1> SUFFICES ASSUME RrdInv, rrdCache # NoRrd, NEW r \in Resolutions, NEW late \in 0..3, NEW k \in 0..Entries - 1
             PROVE  extract_data(rrdCache[r], rrdClock + late, r)[k]
                      = Expected(r * ((rrdClock + late) \div r + 1) - r * Entries + k * r, r)
  BY DEF ShownWasMeasured
<1>1. /\ RingOK(rrdCache[r], measured[r], r, rrdClock) /\ rrdCache[r].last = rrdClock
      /\ rrdClock \in StartTime..EndTime /\ late \in Nat
  BY DEF RrdInv, CachedOK
<1>2. Shows(rrdCache[r], measured[r], rrdClock + late, r, k)
  BY <1>1, ShownRing
<1> QED  BY <1>2 DEF Expected, Shows

(* With a clock that is not set back, what the statistics show is what was *)
(* measured: for every number of slots, time frame and step of the clock,  *)
(* update and extract_data of src/rrd/rrd.rs lose no value of the last     *)
(* turn and show none of an earlier one, also after a restart.             *)
THEOREM StatisticsAreRight == ~ClockMayGoBack => (RrdSpec => []ShownWasMeasured)
<1> SUFFICES ASSUME ~ClockMayGoBack PROVE RrdSpec => []ShownWasMeasured
  OBVIOUS
<1>1. RrdInit => RrdInv
  BY RrdInitInv
<1>2. RrdInv /\ [RrdNext]_rrdVars => RrdInv'
  BY RrdNextInv
<1>3. RrdInv => ShownWasMeasured
  BY RrdInvShows
<1> QED  BY <1>1, <1>2, <1>3, PTL DEF RrdSpec
=============================================================================
