------------------------------- MODULE Contact -------------------------------
(***************************************************************************)
(* One enrolled host and its control plane, from beat to beat: the agent's *)
(* cycle and its renewals (Run, cycle, maybeRenew, internal/agent/agent.go, *)
(* credential.go, client.go), and the middleware and handlers that answer  *)
(* (requireAgent, server.go; handleHeartbeat, handleRenew, agentapi.go;    *)
(* RenewCertificate, postgres.go).                                         *)
(*                                                                         *)
(* A certificate is authenticated per connection and looked up per         *)
(* request: `conn' is the certificate the live connection was opened with, *)
(* which need not be the one on disk.  A request the agent has given up on *)
(* may still be handled, `late'.  A document is its version.  A tick is    *)
(* longer than a cycle: time passes when the host, where it can be served, *)
(* has been.                                                               *)
(***************************************************************************)
EXTENDS Integers, FiniteSets

CONSTANTS
    Lifetime, RenewPoint, Overlap,  \* AgentCertLifetime, RenewAfterFraction of it and renewalOverlap, in ticks
    MaxLive,                        \* maxLiveCertificatesPerHost
    Situations,                     \* the [until, acts, faults, changes, failures] explored: how far the clock runs,
                                    \* what may happen besides cycles, and how often
    MaxCerts, MaxTime               \* bounds on the certificates issued and on the clock

ASSUME ContactAssumption ==
    /\ \A c \in {Lifetime, RenewPoint, Overlap, MaxLive, MaxCerts, MaxTime} : c \in Nat \ {0}
    /\ RenewPoint < Lifetime
    /\ \A s \in Situations : s.until \in 0 .. MaxTime /\ s.changes \in Nat /\ s.failures \in Nat

VARIABLES
    situation,      \* the one explored
    now,
    certs,          \* the control plane's certificate rows of this host
    host,           \* its host row, with each document and the digest beside it
    suspended,      \* the tenant's
    calls,          \* the request the agent waits for, and one it has given up on
    agent,          \* the agent process
    disk,           \* agent.pem and agent.pem.prev
    docs,           \* what is true on the host, by kind of document
    acts, faults

server == <<certs, host, suspended>>
vars == <<situation, now, certs, host, suspended, calls, agent, disk, docs, acts, faults>>

None == -1          \* in place of a certificate
Corrupt == -2       \* a file that does not parse
Never == MaxTime + Lifetime
CertIDs == 0 .. MaxCerts - 1
Kinds == <<"facts", "policy", "signers">>
Docs == {"facts", "policy", "signers"}
Unreported == -1

NoCert == [row |-> "none", notAfter |-> 0, supersededAt |-> Never]
Issued == [row |-> "live", notAfter |-> now + Lifetime, supersededAt |-> Never]

\* What a digest is taken of.  The server takes it of the document; the agent's signers.Digest of other lines,
\* which come out the same for an empty trust anchor (version 0) only.
DigestOf(d, version) == <<"document", version>>
ClaimedDigest(d, version) == IF d = "signers" /\ version # 0 THEN <<"lines", version>> ELSE DigestOf(d, version)
NoDigest == <<"", Unreported>>

Says(status, want, fresh) == [status |-> status, want |-> want, fresh |-> fresh]
NoCall == [at |-> "none", kind |-> "beat", cert |-> None, docs |-> [d \in Docs |-> 0], full |-> FALSE,
           stored |-> 0, seen |-> [d \in Docs |-> NoDigest], reply |-> Says(0, FALSE, None), cut |-> FALSE]
Slots == {"awaited", "late"}

\* LoadCredential: the current pair or, where it does not parse, the superseded one.
LoadCredential == IF disk.current \in CertIDs THEN disk.current
                  ELSE IF disk.previous \in CertIDs THEN disk.previous ELSE None

Expired(c) == now >= certs[c].notAfter

\* What requireAgent asks of a certificate and its host; expiry is the handshake's to check.
Refused(c) ==
    \/ certs[c].row # "live"
    \/ now >= certs[c].supersededAt
    \/ host.row # "live"

Live(c) == certs[c].row = "live" /\ ~Expired(c) /\ now < certs[c].supersededAt
CountLiveCertificates == Cardinality({c \in CertIDs : Live(c)})

Certificate == [row : {"none", "live", "revoked", "deleted"}, notAfter : 0 .. MaxTime + Lifetime,
                supersededAt : 0 .. Never]
Digest == {"", "document", "lines"} \X Int
Host == [row : {"live", "revoked", "deleted"}, held : [Docs -> [doc : Int, digest : Digest]]]
Reply == [status : {0, 200, 401, 403, 429, 500}, want : BOOLEAN, fresh : CertIDs \cup {None}]
Call == [at : {"none", "sent", "admitted", "recorded", "answered"}, kind : {"beat", "renew"},
         cert : CertIDs \cup {None}, docs : [Docs -> Nat], full : BOOLEAN, stored : 0 .. 3,
         seen : [Docs -> Digest], reply : Reply, cut : BOOLEAN]
Agent == [at : {"idle", "beat", "due", "renew", "promote", "kept", "parked", "down"},
          conn : CertIDs \cup {None}, want : BOOLEAN, fresh : CertIDs \cup {None}, served : BOOLEAN]
Pair == CertIDs \cup {None, Corrupt}

TypeOK ==
    /\ situation \in Situations
    /\ now \in 0 .. MaxTime
    /\ certs \in [CertIDs -> Certificate]
    /\ host \in Host
    /\ suspended \in BOOLEAN
    /\ calls \in [Slots -> Call]
    /\ agent \in Agent
    /\ disk \in [current : Pair, previous : Pair]
    /\ docs \in [Docs -> 0 .. situation.changes]
    /\ acts \in Nat
    /\ faults \in Nat

-----------------------------------------------------------------------------
(* The control plane.  `s' is the slot the request is in. *)

Beyond == <<situation, now, agent, disk, docs, acts>>
Fail(kind) == kind \in situation.faults /\ faults < situation.failures /\ faults' = faults + 1

Respond(s, reply) ==
    calls' = [calls EXCEPT ![s] = IF s = "late" THEN NoCall
                                  ELSE [@ EXCEPT !.at = "answered", !.reply = reply]]

Answered(s, status) == Respond(s, Says(status, FALSE, None))

\* Mutation: a certificate that is not revoked speaks for its host.
AdmitsCertificate(s) ==
    LET c == calls[s].cert
    IN /\ calls[s].at = "sent"
       /\ \/ /\ certs[c].row # "live" \/ now >= certs[c].supersededAt
             /\ Answered(s, 401)
          \/ /\ ~(certs[c].row # "live" \/ now >= certs[c].supersededAt) /\ suspended
             /\ Answered(s, 403)
          \/ /\ ~(certs[c].row # "live" \/ now >= certs[c].supersededAt) /\ ~suspended
             /\ calls' = [calls EXCEPT ![s].at = "admitted", ![s].seen = [d \in Docs |-> host.held[d].digest]]
       /\ UNCHANGED <<Beyond, server, faults>>

\* requireAgent: the certificate, then the tenant, then the host, whose row the handler is given.
RequireAgent(s) ==
    LET c == calls[s].cert
    IN /\ calls[s].at = "sent"
       /\ \/ /\ Refused(c)
             /\ ~suspended \/ certs[c].row # "live" \/ now >= certs[c].supersededAt
             /\ Answered(s, 401)
          \/ /\ certs[c].row = "live" /\ now < certs[c].supersededAt /\ suspended
             /\ Answered(s, 403)
          \/ /\ ~Refused(c) /\ ~suspended
             /\ calls' = [calls EXCEPT ![s].at = "admitted", ![s].seen = [d \in Docs |-> host.held[d].digest]]
       /\ UNCHANGED <<Beyond, server, faults>>

\* A store call of the middleware or of either handler fails.
StoreFails(s) ==
    /\ calls[s].at \in {"sent", "admitted"}
    /\ Fail("store")
    /\ Answered(s, 500)
    /\ UNCHANGED <<Beyond, server>>

\* Mutation: the digests a host claims are recorded with its beat.
RecordClaims(s) ==
    /\ calls[s].at = "admitted" /\ calls[s].kind = "beat"
    /\ calls' = [calls EXCEPT ![s].at = "recorded"]
    /\ host' = [host EXCEPT !.held = [d \in Docs |-> [@[d] EXCEPT !.digest = ClaimedDigest(d, calls[s].docs[d])]]]
    /\ UNCHANGED <<Beyond, certs, suspended, faults>>

\* RecordHeartbeat touches the row without its documents, and fails where the host is gone.
RecordHeartbeat(s) ==
    /\ calls[s].at = "admitted" /\ calls[s].kind = "beat"
    /\ IF host.row = "deleted" THEN Answered(s, 500) ELSE calls' = [calls EXCEPT ![s].at = "recorded"]
    /\ UNCHANGED <<Beyond, server, faults>>

\* storeDocumentIfPresent, for facts, policy and signers in turn: the digest is taken of the document, and a failure
\* is logged and passed over.
StoreDocument(s) ==
    LET d == Kinds[calls[s].stored + 1]
    IN /\ calls[s].at = "recorded" /\ calls[s].full /\ calls[s].stored < 3
       /\ calls' = [calls EXCEPT ![s].stored = @ + 1]
       /\ \/ /\ host.row # "deleted"
             /\ host' = [host EXCEPT !.held[d] = [doc |-> calls[s].docs[d], digest |-> DigestOf(d, calls[s].docs[d])]]
             /\ UNCHANGED faults
          \/ /\ host.row = "deleted"
             /\ UNCHANGED <<host, faults>>
          \/ /\ Fail("store")
             /\ UNCHANGED host
       /\ UNCHANGED <<Beyond, certs, suspended>>

\* A document is wanted whose claimed digest is not that of the row requireAgent read.
Wanted(call) == {d \in Docs : ~call.full /\ ClaimedDigest(d, call.docs[d]) # call.seen[d]}

AnswerHeartbeat(s) ==
    /\ calls[s].at = "recorded" /\ (calls[s].full => calls[s].stored = 3)
    /\ Respond(s, Says(200, Wanted(calls[s]) # {}, None))
    /\ UNCHANGED <<Beyond, server, faults>>

\* renewLimiter: a bucket per host and replica.
RateLimited(s) ==
    /\ calls[s].at = "admitted" /\ calls[s].kind = "renew"
    /\ Fail("limited")
    /\ Answered(s, 429)
    /\ UNCHANGED <<Beyond, server>>

FreshID == CHOOSE c \in CertIDs : certs[c].row = "none" /\ \A b \in 0 .. c - 1 : certs[b].row # "none"
SomeFresh == \E c \in CertIDs : certs[c].row = "none"
Least(a, b) == IF a <= b THEN a ELSE b

\* Mutation: the overlap is no longer than the renewal jitter.
RetireWithinJitter(c) == [certs[c] EXCEPT !.supersededAt = Least(@, now + 1)]

\* The presented certificate works for the overlap, and a second renewal does not put its end off.
Retire(c) == [certs[c] EXCEPT !.supersededAt = Least(@, now + Overlap)]

\* Mutation: the live certificates are counted by the limiter's rate alone.
RoomWithoutCount == TRUE

RoomForOne == CountLiveCertificates < MaxLive

\* RenewCertificate: the count and both writes, in one transaction under the host's row lock.
RenewCertificate(s) ==
    /\ calls[s].at = "admitted" /\ calls[s].kind = "renew"
    /\ \/ /\ host.row = "deleted"
          /\ Answered(s, 500) /\ UNCHANGED certs
       \/ /\ host.row # "deleted" /\ ~RoomForOne
          /\ Answered(s, 429) /\ UNCHANGED certs
       \/ /\ host.row # "deleted" /\ RoomForOne /\ SomeFresh
          /\ certs' = [certs EXCEPT ![FreshID] = Issued, ![calls[s].cert] = Retire(calls[s].cert)]
          /\ Respond(s, Says(200, FALSE, FreshID))
    /\ UNCHANGED <<Beyond, host, suspended, faults>>

Serve(s) ==
    \/ RequireAgent(s) \/ StoreFails(s) \/ RecordHeartbeat(s) \/ StoreDocument(s) \/ AnswerHeartbeat(s)
    \/ RateLimited(s) \/ RenewCertificate(s)

-----------------------------------------------------------------------------
(* Operators, and what happens on the host. *)

Act(kind) == kind \in situation.acts /\ acts' = acts + 1 /\ acts < situation.changes
Idle == <<situation, now, calls, agent, disk, faults>>

\* RevokeHost marks the host and every certificate it has.
RevokeHost ==
    /\ Act("revoke") /\ host.row = "live"
    /\ host' = [host EXCEPT !.row = "revoked"]
    /\ certs' = [c \in CertIDs |-> IF certs[c].row = "live" THEN [certs[c] EXCEPT !.row = "revoked"] ELSE certs[c]]
    /\ UNCHANGED <<Idle, suspended, docs>>

DeleteHost ==
    /\ Act("delete") /\ host.row # "deleted"
    /\ host' = [host EXCEPT !.row = "deleted"]
    /\ certs' = [c \in CertIDs |-> IF certs[c].row # "none" THEN [certs[c] EXCEPT !.row = "deleted"] ELSE certs[c]]
    /\ UNCHANGED <<Idle, suspended, docs>>

Suspend ==
    /\ Act("suspend")
    /\ suspended' = ~suspended
    /\ UNCHANGED <<Idle, certs, host, docs>>

\* The machine, its policy or its trust anchor changes.
Change(d) ==
    /\ Act("change")
    /\ docs[d] < situation.changes
    /\ docs' = [docs EXCEPT ![d] = @ + 1]
    /\ UNCHANGED <<Idle, server>>

Operate == RevokeHost \/ DeleteHost \/ Suspend \/ \E d \in Docs : Change(d)

-----------------------------------------------------------------------------
(* The agent. *)

Outside == <<situation, now, server, docs, acts>>
Send(kind, cert) ==
    calls' = [calls EXCEPT !["awaited"] =
                  [at |-> "sent", kind |-> kind, cert |-> cert, docs |-> docs,
                   full |-> (kind = "beat" /\ agent.want), stored |-> 0, seen |-> NoCall.seen,
                   reply |-> NoCall.reply, cut |-> host.row # "live"]]

\* The transport reuses its connection; a new one is opened with what is on disk and fails on an expired certificate.
Presentable == IF agent.conn # None THEN agent.conn
               ELSE IF LoadCredential # None /\ ~Expired(LoadCredential) THEN LoadCredential ELSE None

\* cycle: facts are gathered and digested, and sent in full where the last answer asked for them.
Beat ==
    /\ agent.at = "idle" /\ Presentable # None
    /\ Send("beat", Presentable)
    /\ agent' = [agent EXCEPT !.at = "beat", !.conn = Presentable]
    /\ UNCHANGED <<Outside, disk, faults>>

Answer == calls["awaited"]
Hear == Answer.at = "answered" /\ calls' = [calls EXCEPT !["awaited"] = NoCall]

\* IsUnauthorised.
Parks(status) == status = 401

HearBeat ==
    /\ agent.at = "beat" /\ Hear
    /\ agent' = IF Answer.reply.status = 200 THEN [agent EXCEPT !.at = "due", !.want = Answer.reply.want]
                ELSE [agent EXCEPT !.at = IF Parks(Answer.reply.status) THEN "parked" ELSE "idle"]
    /\ UNCHANGED <<Outside, disk, faults>>

\* RenewAt of the certificate on disk, jittered by up to a tick.
RenewAt(c) == certs[c].notAfter - Lifetime + RenewPoint

\* maybeRenew up to its request.
MaybeRenew ==
    LET leaf == LoadCredential
    IN /\ agent.at = "due"
       /\ \/ /\ leaf = None \/ now < RenewAt(leaf) + 1
             /\ agent' = [agent EXCEPT !.at = "idle", !.served = TRUE]
             /\ UNCHANGED calls
          \/ /\ leaf # None /\ now >= RenewAt(leaf) /\ Presentable # None
             /\ Send("renew", Presentable)
             /\ agent' = [agent EXCEPT !.at = "renew", !.conn = Presentable]
       /\ UNCHANGED <<Outside, disk, faults>>

HearRenewal ==
    /\ agent.at = "renew" /\ Hear
    /\ agent' = IF Answer.reply.status = 200 THEN [agent EXCEPT !.at = "promote", !.fresh = Answer.reply.fresh]
                ELSE [agent EXCEPT !.at = "idle", !.served = TRUE]
    /\ UNCHANGED <<Outside, disk, faults>>

\* WriteCredential: whatever the current file holds is copied aside, then the new pair is renamed over it.
KeepPrevious ==
    /\ agent.at = "promote"
    /\ disk' = [disk EXCEPT !.previous = disk.current]
    /\ agent' = [agent EXCEPT !.at = "kept"]
    /\ UNCHANGED <<Outside, calls, faults>>

WriteCurrent ==
    /\ agent.at = "kept"
    /\ disk' = [disk EXCEPT !.current = agent.fresh]
    /\ agent' = [agent EXCEPT !.at = "idle", !.fresh = None, !.served = TRUE]
    /\ UNCHANGED <<Outside, calls, faults>>

\* An idle connection is closed, by either end or something between.
Disconnect ==
    /\ agent.at = "idle" /\ agent.conn # None
    /\ agent' = [agent EXCEPT !.conn = None]
    /\ UNCHANGED <<Outside, calls, disk, faults>>

\* No answer in time: the handler goes on or, with the request or its process lost, does not.
GiveUp ==
    /\ agent.at \in {"beat", "renew"} /\ Answer.at # "none" /\ calls["late"].at = "none"
    /\ Fail("lost")
    /\ \E left \in {NoCall} \cup IF Answer.at = "answered" THEN {} ELSE {Answer} :
          calls' = [calls EXCEPT !["awaited"] = NoCall, !["late"] = left]
    /\ \E conn \in {agent.conn, None} : agent' = [agent EXCEPT !.at = "idle", !.conn = conn]
    /\ UNCHANGED <<Outside, disk>>

\* The agent stops; a pair that a renewal wrote may not have reached the platter.
Crash ==
    /\ agent.at # "down" /\ calls["late"].at = "none"
    /\ \/ Fail("crash") /\ UNCHANGED disk
       \/ Fail("corrupt") /\ disk.current > 0 /\ disk' = [disk EXCEPT !.current = Corrupt]
    /\ calls' = [calls EXCEPT !["awaited"] = NoCall,
                              !["late"] = IF Answer.at = "answered" THEN NoCall ELSE Answer]
    /\ agent' = [agent EXCEPT !.at = "down", !.conn = None, !.fresh = None]
    /\ UNCHANGED Outside

\* Run reports in full on its first beat.
Run ==
    /\ agent.at = "down"
    /\ agent' = [agent EXCEPT !.at = "idle", !.want = TRUE]
    /\ UNCHANGED <<Outside, calls, disk, faults>>

Servable == Presentable # None /\ ~Refused(Presentable) /\ ~suspended

Tick ==
    /\ now < situation.until
    /\ agent.at = "parked" \/ (agent.at = "idle" /\ (Servable => agent.served))
    /\ now' = now + 1
    /\ agent' = [agent EXCEPT !.served = FALSE]
    /\ UNCHANGED <<situation, server, calls, disk, docs, acts, faults>>

Work == Beat \/ HearBeat \/ MaybeRenew \/ HearRenewal \/ KeepPrevious \/ WriteCurrent \/ Run

-----------------------------------------------------------------------------
(* A host just enrolled, whose agent has not started. *)

Init ==
    /\ situation \in Situations
    /\ now = 0 /\ acts = 0 /\ faults = 0
    /\ certs = [c \in CertIDs |-> IF c = 0 THEN Issued ELSE NoCert]
    /\ host = [row |-> "live", held |-> [d \in Docs |-> [doc |-> Unreported, digest |-> NoDigest]]]
    /\ suspended = FALSE
    /\ calls = [s \in Slots |-> NoCall]
    /\ agent = [at |-> "down", conn |-> None, want |-> FALSE, fresh |-> None, served |-> FALSE]
    /\ disk = [current |-> 0, previous |-> None]
    /\ docs = [d \in Docs |-> 0]

Next ==
    \/ \E s \in Slots : Serve(s)
    \/ Operate
    \/ Work \/ Disconnect \/ GiveUp \/ Crash
    \/ Tick

\* The agent's loop runs on, its service is started again after a crash, and a handler that has a request answers.
Fairness == WF_vars(Work) /\ \A s \in Slots : WF_vars(Serve(s))

Spec == Init /\ [][Next]_vars /\ Fairness

-----------------------------------------------------------------------------
(* Properties. *)

\* A pair that parses is on disk whenever no renewal is being written: a renewal keeps the pair it replaces, and a
\* current file that did not survive leaves that one.  After such a loss the next renewal keeps the file that is lost,
\* so a second failure in the middle of it may leave neither (WriteCredential, LoadCredential).
SomethingToPresent ==
    agent.at # "kept" /\ ("corrupt" \in situation.faults => faults <= 1) => LoadCredential # None

Orphans == {c \in CertIDs : disk.current \in CertIDs /\ c > disk.current /\ certs[c].row # "none"}

\* With at most one renewal interrupted between the certificate's issue and its promotion, the certificate on disk
\* has been neither superseded nor, while the agent runs its cycle, left to expire (renewalOverlap, maybeRenew).
WorkingCredential ==
    disk.current \in CertIDs /\ Cardinality(Orphans) <= 1 /\ agent.at # "parked"
        => now < certs[disk.current].supersededAt /\ ~Expired(disk.current)

\* However many renewals are lost, late or repeated, no more than the cap of a host's certificates can authenticate
\* at once (RenewCertificate, maxLiveCertificatesPerHost).
CapHolds == CountLiveCertificates <= MaxLive

\* A request sent after its host was revoked or deleted is not let in, not on a certificate that a renewal already
\* under way added after the revocation either (requireAgent).
WithdrawnIsRefused == \A s \in Slots : calls[s].cut => calls[s].at \notin {"admitted", "recorded"}

\* The agent parks on a certificate the control plane has rejected for good, never on a suspension or a failure,
\* which pass (Run, IsUnauthorised).
ParksOnRejection == agent.at = "parked" => Refused(agent.conn)

-----------------------------------------------------------------------------
(* Why they hold: what every step keeps. *)

\* Certificates are issued one after another, and their rows stay, whatever becomes of them.
IssuedInTurn == \E n \in 1 .. MaxCerts : \A c \in CertIDs : certs[c].row = "none" <=> c >= n

\* What the host presents, holds or is about to write was issued.
Known(c) == c \in CertIDs => certs[c].row # "none"
HoldsWhatWasIssued ==
    /\ Known(disk.current) /\ Known(disk.previous) /\ Known(agent.conn) /\ Known(agent.fresh)
    /\ \A s \in Slots : Known(calls[s].cert) /\ Known(calls[s].reply.fresh)

\* The agent waits for one request, of the kind its state names and on the certificate of its connection; nobody
\* hears the answer to one that it gave up.
Waits ==
    /\ agent.at \in {"beat", "renew"} <=> Answer.at # "none"
    /\ Answer.at # "none" => Answer.kind = agent.at /\ Answer.cert = agent.conn
    /\ calls["late"].at # "answered"
    /\ \A s \in Slots : /\ calls[s].at # "none" => calls[s].cert \in CertIDs
                        /\ calls[s].at = "recorded" => calls[s].kind = "beat"

\* An answer carries what its status says: a new certificate, or the rejection of one that stays rejected.
AnswersMean ==
    /\ Answer.at = "answered" /\ Answer.reply.status = 401 => Refused(Answer.cert)
    /\ Answer.at = "answered" /\ Answer.reply.status = 200 /\ Answer.kind = "renew" => Answer.reply.fresh \in CertIDs
    /\ agent.at \in {"promote", "kept"} => agent.fresh \in CertIDs

\* The current file is lost only to a failure to write it through, which a renewal's first has the previous one for.
FilesSurvive ==
    /\ "corrupt" \notin situation.faults => disk.current \in CertIDs
    /\ faults = 0 => /\ disk.current \in CertIDs
                     /\ disk.current > 0 \/ agent.at = "kept" => disk.previous \in CertIDs
    /\ faults = 1 /\ agent.at # "kept" => disk.current \in CertIDs \/ disk.previous \in CertIDs

\* A request that set out after the withdrawal finds the host's row withdrawn.
CutForGood == \A s \in Slots : calls[s].cut => host.row # "live"

\* What the agent and the control plane keep through lost answers, crashes and restarts: a pair to present, no more
\* than the cap of certificates to accept, and an agent that parks only on a certificate that is really refused.
ContactInv ==
    /\ TypeOK
    /\ SomethingToPresent
    /\ CapHolds
    /\ ParksOnRejection
    /\ IssuedInTurn /\ HoldsWhatWasIssued /\ Waits /\ AnswersMean /\ FilesSurvive /\ CutForGood

\* A report that was lost, overtaken or not stored is asked for until the control plane holds what is true on the
\* host (handleHeartbeat).
DocumentsArrive ==
    <>[](agent.at # "parked" /\ Servable => \A d \in Docs : host.held[d].doc = docs[d])

\* An agent that is parked holds nothing better: a renewal takes effect on the next request, as NewClient and
\* maybeRenew say.
ParkedForAReason == agent.at = "parked" => Refused(LoadCredential)
=============================================================================
