------------------------- MODULE ClientConnection -------------------------
(***************************************************************************)
(* HttpClient: how the commands of one user on one machine log in to their *)
(* servers, keep their tickets alive and remember tickets and fingerprints *)
(* in two files.  Every process makes one client for one server.  Its      *)
(* requests share one login, held by a BroadcastFuture; a renewal task     *)
(* asks for a new ticket every RenewEvery units of time.  A ticket is the  *)
(* time it was issued at; Password and Secret stand for the two values     *)
(* that are not tickets.  A file is read and replaced in two steps and     *)
(* without a lock, so two processes can lose each other's entries.         *)
(***************************************************************************)
EXTENDS Integers, FiniteSets

CONSTANTS Procs,        \* client processes
          ServerOf,     \* the server of every process
          OptionsOf,    \* sets of [kind, cache, tty, password, fp]: how a client is made
          Slots,        \* concurrent requests of a process
          Lifetime,     \* TICKET_LIFETIME, in units of the clock
          RenewEvery,   \* the 15 minutes between two renewals
          MaxTime, MaxConnFaults

ASSUME ConnAssumption ==
    /\ \A p \in Procs: /\ OptionsOf[p] # {}
                        /\ OptionsOf[p] \subseteq [kind: {"user", "token"}, cache: BOOLEAN,
                                                  tty: BOOLEAN, password: BOOLEAN, fp: Int]
    /\ RenewEvery \in Nat /\ Lifetime \in Nat /\ RenewEvery <= Lifetime

VARIABLES now, conn, req, tickets, prints, cert, confirmed, cfaults

connVars == <<now, conn, req, tickets, prints, cert, confirmed, cfaults>>

Servers == {ServerOf[p] : p \in Procs}
Password == 0
Secret == -1
None == -2
\* A certificate: odd ones are signed by an authority the client knows.
CertIsValid(c) == c % 2 = 1

\* first: the BroadcastFuture; "new" holds the login future that is not yet polled.
NoClient == [st |-> "off", opt |-> CHOOSE o \in UNION {OptionsOf[p] : p \in Procs}: TRUE,
             cred |-> None, print |-> None, first |-> "new", renew |-> "off", wake |-> 0,
             save |-> None, file |-> [s \in Servers |-> None]]

ConnInit ==
    /\ now = 1
    /\ conn = [p \in Procs |-> NoClient]
    /\ req = [p \in Procs |-> [r \in Slots |-> [st |-> "idle", cred |-> None]]]
    /\ tickets = [s \in Servers |-> None]
    /\ prints = [s \in Servers |-> None]
    /\ cert = 2
    /\ confirmed = {}
    /\ cfaults = 0

Fault == cfaults < MaxConnFaults /\ cfaults' = cfaults + 1
NoFault == UNCHANGED cfaults

(* ---------------------------- the two files ---------------------------- *)

Fresh(t) == t # None /\ now - t < Lifetime
load_ticket_info(s) == IF Fresh(tickets[s]) THEN tickets[s] ELSE None
load_fingerprint(s) == prints[s]

\* What store_ticket_info writes from the file it has read: expired entries go.
MergeTickets(file, s, t) ==
    [x \in Servers |-> IF x = s THEN t ELSE IF Fresh(file[x]) THEN file[x] ELSE None]

store_ticket_info(p) ==
    /\ conn[p].save # None
    /\ tickets' = MergeTickets(conn[p].file, ServerOf[p], conn[p].save)
    /\ conn' = [conn EXCEPT ![p].save = None, ![p].file = NoClient.file]
    /\ UNCHANGED <<now, req, prints, cert, confirmed, cfaults>>

\* The "logout" command.
delete_ticket_info(s) ==
    /\ tickets[s] # None
    /\ tickets' = [tickets EXCEPT ![s] = None]
    /\ UNCHANGED <<now, conn, req, prints, cert, confirmed, cfaults>>

(* --------------------------- making a client --------------------------- *)

\* The fingerprint of the options, else the stored one.
ExpectedPrint(o, s) ==
    IF o.fp # None THEN o.fp ELSE IF o.cache THEN load_fingerprint(s) ELSE None

CachesPrint(o) == o.cache /\ o.fp = None

\* The value the first login uses as the password; None: there is no way to get one.
FirstPassword(o, s) ==
    CASE o.kind = "token" -> IF o.password THEN Secret ELSE None
      [] o.password -> Password
      [] o.cache /\ load_ticket_info(s) # None -> load_ticket_info(s)
      [] OTHER -> IF o.tty THEN Password ELSE None

New(p) ==
    /\ conn[p].st = "off"
    /\ \E o \in OptionsOf[p]:
          LET s == ServerOf[p]  w == FirstPassword(o, s) IN
          conn' = [conn EXCEPT ![p] = [NoClient EXCEPT
                      !.st = IF w = None THEN "gone" ELSE "up",
                      !.opt = o,
                      !.cred = w,
                      !.print = ExpectedPrint(o, s),
                      !.first = IF o.kind = "token" THEN "ok" ELSE "new"]]
    /\ UNCHANGED <<now, req, tickets, prints, cert, confirmed, cfaults>>

Drop(p) ==
    /\ conn[p].st = "up" /\ conn[p].save = None
    /\ \A r \in Slots: req[p][r].st = "idle"
    /\ conn' = [conn EXCEPT ![p] = [NoClient EXCEPT !.st = "gone"]]
    /\ UNCHANGED <<now, req, tickets, prints, cert, confirmed, cfaults>>

(* ------------------------ the server's certificate --------------------- *)

\* verify_callback: a valid certificate, the expected one, or one the user confirms.
Expected(p) == conn[p].print # None /\ conn[p].print = cert
Asks(p) == ~CertIsValid(cert) /\ conn[p].print = None /\ conn[p].opt.tty

StorePrint(p, fp) ==
    IF CachesPrint(conn[p].opt) /\ fp # None
    THEN prints' = [prints EXCEPT ![ServerOf[p]] = fp]
    ELSE UNCHANGED prints

Accepted(p) ==
    \/ CertIsValid(cert) /\ UNCHANGED <<prints, confirmed>>
    \/ ~CertIsValid(cert) /\ Expected(p) /\ StorePrint(p, cert) /\ UNCHANGED confirmed
    \/ Asks(p) /\ StorePrint(p, cert) /\ confirmed' = confirmed \cup {cert}

Rejected(p) ==
    /\ ~CertIsValid(cert) /\ ~Expected(p)
    /\ UNCHANGED <<prints, confirmed>>

\* The administrator replaces the certificate of the servers.
ReplaceCert ==
    /\ Fault
    /\ cert' \in {1, 4} \ {cert}
    /\ UNCHANGED <<now, conn, req, tickets, prints, confirmed>>

(* ------------------------- login and renewal --------------------------- *)

\* External: the server takes the password, or a ticket that has not expired.
Granted(c) == c = Password \/ (c > 0 /\ now - c <= Lifetime)

\* The listeners of the broadcast: all of them get the result.
Notified(p, ok) ==
    [r \in Slots |-> IF req[p][r].st = "wait"
                     THEN [req[p][r] EXCEPT !.st = IF ok THEN "ready" ELSE "err"]
                     ELSE req[p][r]]

\* store_ticket_info reads the file, then AuthInfo is replaced.
Authenticated_Unwritten(p) ==
    [conn[p] EXCEPT !.save = IF @ = None /\ conn[p].opt.cache THEN now ELSE @,
                    !.file = IF conn[p].opt.cache THEN tickets ELSE @,
                    !.renew = "sleep", !.wake = now + RenewEvery]

Authenticated(p) ==
    [conn[p] EXCEPT !.cred = now,
                    !.save = IF conn[p].opt.cache THEN now ELSE None,
                    !.file = IF conn[p].opt.cache THEN tickets ELSE @,
                    !.renew = "sleep", !.wake = now + RenewEvery]

\* credentials() of the login future: the answer, a refusal, or the timeout.
Login(p) ==
    /\ conn[p].first = "asked"
    /\ UNCHANGED <<now, tickets, cert>>
    /\ \/ /\ Granted(conn[p].cred) /\ Accepted(p) /\ NoFault
          /\ conn' = [conn EXCEPT ![p] = [Authenticated(p) EXCEPT !.first = "ok"]]
          /\ req' = [req EXCEPT ![p] = Notified(p, TRUE)]
       \/ /\ \/ ~Granted(conn[p].cred) /\ Accepted(p) /\ NoFault
             \/ Rejected(p) /\ NoFault
             \/ Fault /\ UNCHANGED <<prints, confirmed>>
          /\ conn' = [conn EXCEPT ![p].first = "err"]
          /\ req' = [req EXCEPT ![p] = Notified(p, FALSE)]

Wakes(p) ==
    /\ conn[p].renew = "sleep" /\ conn[p].wake <= now /\ conn[p].save = None
    /\ conn' = [conn EXCEPT ![p].renew = "ask"]
    /\ UNCHANGED <<now, req, tickets, prints, cert, confirmed, cfaults>>

\* The loop ends at the first re-authentication that fails.
Renew(p) ==
    /\ conn[p].renew = "ask"
    /\ UNCHANGED <<now, req, tickets, cert>>
    /\ \/ /\ Granted(conn[p].cred) /\ Accepted(p) /\ NoFault
          /\ conn' = [conn EXCEPT ![p] = Authenticated(p)]
       \/ /\ \/ ~Granted(conn[p].cred) /\ Accepted(p) /\ NoFault
             \/ Rejected(p) /\ NoFault
             \/ Fault /\ UNCHANGED <<prints, confirmed>>
          /\ conn' = [conn EXCEPT ![p].renew = "stop"]

(* ------------------------------ requests ------------------------------- *)

\* login(): a client of a token has no first_auth; the first listener spawns the
\* login future, a listener that comes after the result gets it at once.
StartRequest(p) == \E r \in Slots:
    /\ conn[p].st = "up" /\ req[p][r].st = "idle"
    /\ \A q \in Slots: q < r => req[p][q].st # "idle"
    /\ req' = [req EXCEPT ![p][r].st =
                  CASE conn[p].first = "ok" -> "ready"
                    [] conn[p].first = "err" -> "err"
                    [] OTHER -> "wait"]
    /\ conn' = [conn EXCEPT ![p].first = IF @ = "new" THEN "asked" ELSE @]
    /\ UNCHANGED <<now, tickets, prints, cert, confirmed, cfaults>>

\* request, download and start_h2_connection put the AuthInfo of this moment in a header.
SendRequest(p) == \E r \in Slots:
    /\ req[p][r].st = "ready"
    /\ req' = [req EXCEPT ![p][r] = [st |-> "sent", cred |-> conn[p].cred]]
    /\ UNCHANGED <<now, conn, tickets, prints, cert, confirmed, cfaults>>

\* api_request and api_response: the answer, an HTTP error or the timeout.
Answer(p) == \E r \in Slots:
    /\ req[p][r].st = "sent"
    /\ \/ (Accepted(p) \/ Rejected(p)) /\ NoFault
       \/ Fault /\ UNCHANGED <<prints, confirmed>>
    /\ req' = [req EXCEPT ![p][r] = [st |-> "idle", cred |-> None]]
    /\ UNCHANGED <<now, conn, tickets, cert>>

\* The caller sees the error of the login.
Reported(p) == \E r \in Slots:
    /\ req[p][r].st = "err"
    /\ req' = [req EXCEPT ![p][r].st = "idle"]
    /\ UNCHANGED <<now, conn, tickets, prints, cert, confirmed, cfaults>>

\* Timers fire on time and a request ends (HTTP_TIMEOUT) within one unit.
Tick ==
    /\ now < MaxTime
    /\ \A p \in Procs:
          /\ conn[p].first # "asked" /\ conn[p].renew # "ask" /\ conn[p].save = None
          /\ ~(conn[p].renew = "sleep" /\ conn[p].wake <= now)
          /\ \A r \in Slots: req[p][r].st \notin {"sent", "ready"}
    /\ now' = now + 1
    /\ UNCHANGED <<conn, req, tickets, prints, cert, confirmed, cfaults>>

ConnNext ==
    \/ \E p \in Procs: \/ New(p) \/ Drop(p) \/ Login(p) \/ Wakes(p) \/ Renew(p)
                       \/ StartRequest(p) \/ SendRequest(p) \/ Answer(p) \/ Reported(p)
                       \/ store_ticket_info(p)
    \/ \E s \in Servers: delete_ticket_info(s)
    \/ ReplaceCert \/ Tick

ConnSpec == ConnInit /\ [][ConnNext]_connVars

(***************************************************************************)
(* Properties.                                                             *)
(***************************************************************************)

\* A request of a user carries a ticket, never the password the client was made
\* with, and the ticket has not expired unless the renewal task has given up: the
\* login is awaited by every request, and login and renewal replace the AuthInfo
\* that later requests read (HttpClient::new and login).
TicketsSentAreLive == \A p \in Procs: \A r \in Slots:
    (req[p][r].st = "sent" /\ conn[p].opt.kind = "user") =>
        /\ req[p][r].cred > 0
        /\ conn[p].renew # "stop" => now - req[p][r].cred <= Lifetime

\* No request waits for a login that has already ended: a listener is registered
\* before the result is stored, and then gets it, or finds it (BroadcastData).
NoLostListener == \A p \in Procs: \A r \in Slots:
    req[p][r].st = "wait" => conn[p].first = "asked"
===========================================================================
