---------------------------- MODULE Contact_proofs ----------------------------
(***************************************************************************)
(* What TLAPS proves of Contact: the invariant of a host and its control   *)
(* plane for every lifetime, overlap, cap and situation, and that a        *)
(* withdrawn host is refused.                                              *)
(*                                                                         *)
(* The rows come first: what each step does to a certificate, so that one  *)
(* that is refused stays refused and one that was issued stays known.      *)
(* Then the request in each slot and the agent that waits for it, then the *)
(* two files.                                                              *)
(***************************************************************************)
EXTENDS Contact, FiniteSetTheorems, TLAPS

-----------------------------------------------------------------------------
(* Certificates. *)

\* The identifiers are numbers, apart from what stands for no certificate.
LEMMA Identifiers ==
    /\ CertIDs \subseteq Nat
    /\ None \notin CertIDs /\ Corrupt \notin CertIDs /\ None # Corrupt
    /\ 0 \in CertIDs
    /\ MaxCerts \in Nat /\ MaxTime \in Nat /\ Lifetime \in Nat /\ Overlap \in Nat /\ MaxLive \in Nat
    /\ Never \in Nat
BY ContactAssumption DEF CertIDs, None, Corrupt, Never

\* The sets that are counted are finite.
LEMMA FiniteIDs ==
    ASSUME NEW P \in SUBSET CertIDs
    PROVE  IsFiniteSet(P) /\ Cardinality(P) \in Nat
<1>1. IsFiniteSet(CertIDs)
    BY FS_Interval, Identifiers DEF CertIDs
<1> QED
    BY <1>1, FS_Subset, FS_CardinalityType

\* What a step leaves of the rows: none is lost, none comes to authenticate that did not, and at most MaxLive do.
Withdrawn == host.row # "live"
RowsKeep ==
    /\ now' \in 0 .. MaxTime /\ now' >= now
    /\ certs' \in [CertIDs -> Certificate]
    /\ host' \in Host
    /\ suspended' \in BOOLEAN
    /\ IssuedInTurn'
    /\ Withdrawn => Withdrawn'
    /\ \A c \in CertIDs : certs[c].row # "none" => certs'[c].row # "none" /\ (Refused(c) => Refused(c)')
    /\ CapHolds'

RowsInv ==
    /\ now \in 0 .. MaxTime /\ certs \in [CertIDs -> Certificate] /\ host \in Host /\ suspended \in BOOLEAN
    /\ IssuedInTurn /\ CapHolds

\* Where fewer certificates can authenticate than before, the cap still holds.
LEMMA FewerAreLive ==
    ASSUME CapHolds, \A c \in CertIDs : Live(c)' => Live(c)
    PROVE  CapHolds'
<1> DEFINE before == {c \in CertIDs : Live(c)}
<1> DEFINE after == {c \in CertIDs : Live(c)'}
<1>1. after \subseteq before /\ before \in SUBSET CertIDs /\ after \in SUBSET CertIDs
    OBVIOUS
<1>2. IsFiniteSet(before) /\ Cardinality(before) \in Nat /\ Cardinality(after) \in Nat
    BY <1>1, FiniteIDs
<1>3. Cardinality(after) <= Cardinality(before)
    BY <1>1, <1>2, FS_Subset
<1>4. Cardinality(before) <= MaxLive
    BY DEF CapHolds, CountLiveCertificates
<1>5. Cardinality(after) <= MaxLive
    BY <1>2, <1>3, <1>4, Identifiers
<1> QED
    BY <1>5 DEF CapHolds, CountLiveCertificates

\* Where one more can, there was room for it.
LEMMA OneMoreIsLive ==
    ASSUME RoomForOne, NEW f \in CertIDs, \A c \in CertIDs \ {f} : Live(c)' => Live(c)
    PROVE  CapHolds'
<1> DEFINE before == {c \in CertIDs : Live(c)}
<1> DEFINE after == {c \in CertIDs : Live(c)'}
<1>1. after \subseteq before \cup {f} /\ before \in SUBSET CertIDs /\ after \in SUBSET CertIDs
    OBVIOUS
<1>2. IsFiniteSet(before) /\ Cardinality(before) \in Nat /\ Cardinality(after) \in Nat
    BY <1>1, FiniteIDs
<1>3. /\ IsFiniteSet(before \cup {f})
      /\ Cardinality(before \cup {f}) \in {Cardinality(before), Cardinality(before) + 1}
    BY <1>2, FS_AddElement
<1>4. Cardinality(after) <= Cardinality(before \cup {f})
    BY <1>1, <1>3, FS_Subset
<1>5. Cardinality(before) < MaxLive
    BY DEF RoomForOne, CountLiveCertificates
<1> HIDE DEF before, after
<1>6. Cardinality(after) <= MaxLive
    BY <1>2, <1>3, <1>4, <1>5, Identifiers
<1> QED
    BY <1>6 DEF CapHolds, CountLiveCertificates, after

\* While the rows and the clock stand still, they keep what holds of them.
LEMMA RowsStand ==
    ASSUME RowsInv, UNCHANGED <<now, certs>>, host' \in Host, host'.row = host.row, suspended' \in BOOLEAN
    PROVE  RowsKeep
<1>1. \A c \in CertIDs : Live(c)' => Live(c)
    BY DEF Live, Expired
<1>2. CapHolds'
    BY <1>1, FewerAreLive DEF RowsInv
<1> QED
    BY <1>2, Identifiers DEF RowsInv, RowsKeep, Withdrawn, IssuedInTurn, Refused

\* The next identifier is the first that was not issued.
LEMMA Fresh ==
    ASSUME IssuedInTurn, SomeFresh
    PROVE  /\ FreshID \in CertIDs
           /\ certs[FreshID].row = "none"
           /\ \A c \in CertIDs : certs[c].row = "none" <=> c >= FreshID
           /\ FreshID >= 1
<1>1. PICK n \in 1 .. MaxCerts : \A c \in CertIDs : certs[c].row = "none" <=> c >= n
    BY DEF IssuedInTurn
<1>2. n \in CertIDs
    BY <1>1, Identifiers DEF SomeFresh, CertIDs
<1>3. certs[n].row = "none" /\ \A b \in 0 .. n - 1 : certs[b].row # "none"
    BY <1>1, <1>2, Identifiers DEF CertIDs
<1>4. FreshID \in CertIDs /\ certs[FreshID].row = "none" /\ \A b \in 0 .. FreshID - 1 : certs[b].row # "none"
    BY <1>2, <1>3 DEF FreshID
<1> HIDE DEF FreshID
<1>5. FreshID = n
    BY <1>1, <1>2, <1>3, <1>4, Identifiers DEF CertIDs
<1> QED
    BY <1>1, <1>4, <1>5

-----------------------------------------------------------------------------
(* What each step does to the rows. *)

\* RevokeHost withdraws the host and marks what it had; nothing can authenticate.
LEMMA RevokeRows ==
    ASSUME RowsInv, RevokeHost
    PROVE  RowsKeep
<1>1. /\ host' \in Host /\ host'.row = "revoked"
      /\ now' = now /\ suspended' = suspended
    BY DEF RowsInv, RevokeHost, Host, Idle
<1>2. certs' \in [CertIDs -> Certificate]
    BY DEF RowsInv, RevokeHost, Certificate
<1>3. \A c \in CertIDs : /\ certs'[c].row = "none" <=> certs[c].row = "none"
                         /\ certs'[c].row # "live"
    BY DEF RowsInv, RevokeHost, Certificate
<1>4. CapHolds'
    BY <1>3, FewerAreLive DEF RowsInv, Live
<1>5. IssuedInTurn'
    BY <1>3 DEF RowsInv, IssuedInTurn
<1> QED
    BY <1>1, <1>2, <1>3, <1>4, <1>5 DEF RowsInv, RowsKeep, Withdrawn, Refused

\* DeleteHost likewise.
LEMMA DeleteRows ==
    ASSUME RowsInv, DeleteHost
    PROVE  RowsKeep
<1>1. /\ host' \in Host /\ host'.row = "deleted"
      /\ now' = now /\ suspended' = suspended
    BY DEF RowsInv, DeleteHost, Host, Idle
<1>2. certs' \in [CertIDs -> Certificate]
    BY DEF RowsInv, DeleteHost, Certificate
<1>3. \A c \in CertIDs : /\ certs'[c].row = "none" <=> certs[c].row = "none"
                         /\ certs'[c].row # "live"
    BY DEF RowsInv, DeleteHost, Certificate
<1>4. CapHolds'
    BY <1>3, FewerAreLive DEF RowsInv, Live
<1>5. IssuedInTurn'
    BY <1>3 DEF RowsInv, IssuedInTurn
<1> QED
    BY <1>1, <1>2, <1>3, <1>4, <1>5 DEF RowsInv, RowsKeep, Withdrawn, Refused

\* With the clock, certificates only run out.
LEMMA TickRows ==
    ASSUME RowsInv, Tick, situation \in Situations
    PROVE  RowsKeep
<1>1. /\ now' = now + 1 /\ now' \in 0 .. MaxTime
      /\ UNCHANGED <<certs, host, suspended>>
    BY Identifiers, ContactAssumption DEF RowsInv, Tick, server
<1>2. \A c \in CertIDs : certs[c].notAfter \in Nat /\ certs[c].supersededAt \in Nat
    BY Identifiers DEF RowsInv, Certificate
<1>3. \A c \in CertIDs : Live(c)' => Live(c)
    BY <1>1, <1>2 DEF RowsInv, Live, Expired
<1>4. CapHolds'
    BY <1>3, FewerAreLive DEF RowsInv
<1>5. \A c \in CertIDs : Refused(c) => Refused(c)'
    BY <1>1, <1>2 DEF RowsInv, Refused
<1> QED
    BY <1>1, <1>4, <1>5 DEF RowsInv, RowsKeep, Withdrawn, IssuedInTurn

\* A renewal issues the next certificate and ends the presented one sooner, if it changes it.
LEMMA RenewalRows ==
    ASSUME RowsInv, RoomForOne,
           NEW f \in CertIDs, f >= 1, \A b \in CertIDs : certs[b].row = "none" <=> b >= f,
           NEW c \in CertIDs, certs[c].row # "none",
           certs' = [certs EXCEPT ![f] = Issued, ![c] = Retire(c)],
           now' = now, host' = host, suspended' = suspended
    PROVE  RowsKeep /\ certs'[f].row = "live"
<1>1. certs[f].row = "none" /\ f \in Nat /\ c # f
    BY Identifiers
<1>2. Issued \in Certificate /\ Issued.row = "live"
    BY Identifiers DEF Issued, Certificate, RowsInv, Never
<1>3. /\ Retire(c) \in Certificate
      /\ Retire(c).row = certs[c].row /\ Retire(c).notAfter = certs[c].notAfter
      /\ Retire(c).supersededAt <= certs[c].supersededAt
      /\ certs[c].supersededAt \in Nat /\ Retire(c).supersededAt \in Nat
    <2>1. certs[c] \in Certificate /\ now \in Nat
        BY Identifiers DEF RowsInv
    <2>2. /\ certs[c].supersededAt \in 0 .. Never
          /\ Least(certs[c].supersededAt, now + Overlap) \in 0 .. Never
          /\ Least(certs[c].supersededAt, now + Overlap) <= certs[c].supersededAt
        BY <2>1, Identifiers DEF Certificate, Least
    <2> QED
        BY <2>1, <2>2, Identifiers DEF Certificate, Retire
<1>4. certs \in [CertIDs -> Certificate]
    BY DEF RowsInv
<1>5. certs' \in [CertIDs -> Certificate]
    BY <1>1, <1>2, <1>3, <1>4
<1>6. /\ certs'[f] = Issued /\ certs'[c] = Retire(c)
      /\ \A b \in CertIDs \ {f, c} : certs'[b] = certs[b]
    BY <1>1, <1>4
<1>7. \A b \in CertIDs \ {f} : /\ certs'[b].row = certs[b].row /\ certs'[b].notAfter = certs[b].notAfter
                               /\ certs[b].supersededAt \in Nat /\ certs'[b].supersededAt \in Nat
                               /\ certs'[b].supersededAt <= certs[b].supersededAt
    <2> SUFFICES ASSUME NEW b \in CertIDs \ {f}
                 PROVE  /\ certs'[b].row = certs[b].row /\ certs'[b].notAfter = certs[b].notAfter
                        /\ certs[b].supersededAt \in Nat /\ certs'[b].supersededAt \in Nat
                        /\ certs'[b].supersededAt <= certs[b].supersededAt
        OBVIOUS
    <2>1. CASE b = c
        BY <2>1, <1>3, <1>6
    <2>2. CASE b # c
        <3>1. certs[b] \in Certificate /\ certs'[b] = certs[b]
            BY <2>2, <1>4, <1>6
        <3>2. certs[b].supersededAt \in Nat
            BY <3>1, Identifiers DEF Certificate
        <3> QED
            BY <3>1, <3>2
    <2> QED
        BY <2>1, <2>2
<1>8. now \in Nat /\ now' = now /\ host' = host
    BY Identifiers DEF RowsInv
<1>9. \A b \in CertIDs \ {f} : Live(b)' => Live(b)
    BY <1>7, <1>8 DEF Live, Expired
<1>10. CapHolds'
    BY <1>1, <1>9, OneMoreIsLive
<1>11. \A b \in CertIDs : certs[b].row # "none" => certs'[b].row # "none" /\ (Refused(b) => Refused(b)')
    <2> SUFFICES ASSUME NEW b \in CertIDs, certs[b].row # "none"
                 PROVE  certs'[b].row # "none" /\ (Refused(b) => Refused(b)')
        OBVIOUS
    <2>1. b \in CertIDs \ {f}
        BY <1>1
    <2>2. /\ certs'[b].row = certs[b].row
          /\ certs[b].supersededAt \in Nat /\ certs'[b].supersededAt \in Nat
          /\ certs'[b].supersededAt <= certs[b].supersededAt
        BY <1>7, <2>1
    <2> QED
        BY <1>8, <2>2 DEF Refused
<1>12. IssuedInTurn'
    <2>1. f + 1 \in 1 .. MaxCerts
        BY <1>1, Identifiers DEF CertIDs
    <2>2. \A b \in CertIDs : certs'[b].row = "none" <=> b >= f + 1
        <3> SUFFICES ASSUME NEW b \in CertIDs
                     PROVE  certs'[b].row = "none" <=> b >= f + 1
            OBVIOUS
        <3>1. b \in Nat /\ f \in Nat
            BY <1>1, Identifiers
        <3>2. CASE b = f
            BY <1>2, <1>6, <3>1, <3>2
        <3>3. CASE b # f
            <4>1. certs'[b].row = certs[b].row
                BY <1>7, <3>3
            <4>2. b >= f <=> b >= f + 1
                BY <3>1, <3>3
            <4> QED
                BY <4>1, <4>2
        <3> QED
            BY <3>2, <3>3
    <2> QED
        BY <2>1, <2>2 DEF IssuedInTurn
<1>13. certs'[f].row = "live"
    BY <1>2, <1>6
<1> QED
    BY <1>5, <1>8, <1>10, <1>11, <1>12, <1>13 DEF RowsKeep, RowsInv, Withdrawn

-----------------------------------------------------------------------------
(* The request in each slot, and the agent with its files. *)

WorldInv ==
    /\ situation \in Situations
    /\ docs \in [Docs -> 0 .. situation.changes] /\ acts \in Nat /\ faults \in Nat

\* What holds of one request: it is on a certificate that was issued, its answer means what it says, and it was let
\* in before any withdrawal.
SlotInv(s) ==
    /\ calls[s] \in Call
    /\ Known(calls[s].cert) /\ Known(calls[s].reply.fresh)
    /\ calls[s].at # "none" => calls[s].cert \in CertIDs
    /\ calls[s].at = "recorded" => calls[s].kind = "beat"
    /\ calls[s].cut => Withdrawn /\ calls[s].at \notin {"admitted", "recorded"}
    /\ s = "late" => calls[s].at # "answered"
    /\ calls[s].at = "answered" /\ calls[s].reply.status = 401 => Refused(calls[s].cert)
    /\ calls[s].at = "answered" /\ calls[s].reply.status = 200 /\ calls[s].kind = "renew" => calls[s].reply.fresh \in CertIDs

AgentKnows ==
    /\ agent \in Agent
    /\ disk \in [current : Pair, previous : Pair]
    /\ Known(disk.current) /\ Known(disk.previous) /\ Known(agent.conn) /\ Known(agent.fresh)
    /\ agent.at \in {"promote", "kept"} => agent.fresh \in CertIDs
    /\ agent.at = "parked" => agent.conn \in CertIDs /\ Refused(agent.conn)
    /\ FilesSurvive

AgentWaits ==
    /\ agent.at \in {"beat", "renew"} <=> Answer.at # "none"
    /\ Answer.at # "none" => Answer.kind = agent.at /\ Answer.cert = agent.conn

FlightInv ==
    /\ calls \in [Slots -> Call]
    /\ \A s \in Slots : SlotInv(s)
    /\ AgentKnows
    /\ AgentWaits

Inv == RowsInv /\ WorldInv /\ FlightInv

\* The invariant that a run checks follows, and so does that nobody is let in after a withdrawal.
LEMMA InvGives ==
    ASSUME Inv
    PROVE  ContactInv /\ WithdrawnIsRefused
<1>1. TypeOK
    BY DEF Inv, RowsInv, WorldInv, FlightInv, AgentKnows, TypeOK
<1>2. SomethingToPresent
    <2>1. SUFFICES ASSUME agent.at # "kept", "corrupt" \in situation.faults => faults <= 1
                   PROVE  disk.current \in CertIDs \/ disk.previous \in CertIDs
        BY Identifiers DEF SomethingToPresent, LoadCredential
    <2>2. CASE "corrupt" \notin situation.faults
        BY <2>2 DEF Inv, FlightInv, AgentKnows, FilesSurvive
    <2>3. CASE faults <= 1
        <3>1. faults = 0 \/ faults = 1
            BY <2>3 DEF Inv, WorldInv
        <3> QED
            BY <2>1, <3>1 DEF Inv, FlightInv, AgentKnows, FilesSurvive
    <2> QED
        BY <2>1, <2>2, <2>3
<1>3. CapHolds /\ IssuedInTurn
    BY DEF Inv, RowsInv
<1>4. ParksOnRejection
    BY DEF Inv, FlightInv, AgentKnows, ParksOnRejection
<1>5. \A s \in Slots : SlotInv(s)
    BY DEF Inv, FlightInv
<1>6. HoldsWhatWasIssued
    BY <1>5 DEF Inv, FlightInv, AgentKnows, SlotInv, HoldsWhatWasIssued
<1>7. Waits
    BY <1>5 DEF Inv, FlightInv, AgentWaits, SlotInv, Waits, Slots
<1>8. AnswersMean
    <2>1. SlotInv("awaited")
        BY <1>5 DEF Slots
    <2> QED
        BY <2>1 DEF Inv, FlightInv, AgentKnows, SlotInv, AnswersMean, Answer
<1>9. CutForGood /\ WithdrawnIsRefused
    BY <1>5 DEF SlotInv, CutForGood, WithdrawnIsRefused, Withdrawn
<1>10. FilesSurvive
    BY DEF Inv, FlightInv, AgentKnows
<1> QED
    BY <1>1, <1>2, <1>3, <1>4, <1>6, <1>7, <1>8, <1>9, <1>10 DEF ContactInv

\* What was issued stays known, and what is refused stays refused.
LEMMA StaysKnown ==
    ASSUME RowsKeep, NEW c, Known(c)
    PROVE  /\ c \in CertIDs => certs'[c].row # "none"
           /\ c \in CertIDs /\ Refused(c) => Refused(c)'
BY DEF RowsKeep, Known

\* A request that a step leaves alone stays in order.
LEMMA SlotKeeps ==
    ASSUME RowsKeep, NEW s \in Slots, SlotInv(s), calls'[s] = calls[s]
    PROVE  SlotInv(s)'
<1>1. calls[s].cert \in CertIDs => certs'[calls[s].cert].row # "none"
    BY StaysKnown DEF SlotInv
<1>2. calls[s].reply.fresh \in CertIDs => certs'[calls[s].reply.fresh].row # "none"
    BY StaysKnown DEF SlotInv
<1>3. calls[s].at = "answered" /\ calls[s].reply.status = 401 => Refused(calls[s].cert)'
    BY StaysKnown DEF SlotInv, Refused
<1>4. Withdrawn => Withdrawn'
    BY DEF RowsKeep
<1> QED
    BY <1>1, <1>2, <1>3, <1>4 DEF SlotInv, Known, Refused

\* No request is in order.
LEMMA EmptyCall ==
    /\ NoCall \in Call
    /\ NoCall.at = "none" /\ NoCall.cert = None /\ NoCall.reply.fresh = None /\ NoCall.cut = FALSE
<1>1. [d \in Docs |-> 0] \in [Docs -> Nat] /\ [d \in Docs |-> NoDigest] \in [Docs -> Digest]
    <2>1. "" \in {"", "document", "lines"} /\ Unreported \in Int
        BY DEF Unreported
    <2>2. NoDigest \in Digest
        BY <2>1 DEF NoDigest, Digest
    <2> QED
        BY <2>2
<1>2. NoCall \in Call
    <2> DEFINE nothing == Says(0, FALSE, None)
    <2>1. nothing \in Reply
        BY DEF Says, Reply
    <2>2. NoCall = [at |-> "none", kind |-> "beat", cert |-> None, docs |-> [d \in Docs |-> 0], full |-> FALSE,
                    stored |-> 0, seen |-> [d \in Docs |-> NoDigest], reply |-> nothing, cut |-> FALSE]
        BY DEF NoCall
    <2> HIDE DEF nothing
    <2> QED
        BY <1>1, <2>1, <2>2 DEF Call
<1> QED
    BY <1>2 DEF NoCall, Says

LEMMA EmptySlot ==
    ASSUME NEW s \in Slots, calls'[s] = NoCall
    PROVE  SlotInv(s)'
BY EmptyCall, Identifiers DEF SlotInv, Known

\* An agent that a step leaves alone, but for one more failure, keeps what it has.
LEMMA AgentKeeps ==
    ASSUME RowsKeep, WorldInv, AgentKnows, UNCHANGED <<situation, agent, disk>>, faults' \in {faults, faults + 1}
    PROVE  AgentKnows'
<1>1. /\ disk.current \in CertIDs => certs'[disk.current].row # "none"
      /\ disk.previous \in CertIDs => certs'[disk.previous].row # "none"
      /\ agent.conn \in CertIDs => certs'[agent.conn].row # "none"
      /\ agent.fresh \in CertIDs => certs'[agent.fresh].row # "none"
    BY StaysKnown DEF AgentKnows
<1>2. agent.at = "parked" => Refused(agent.conn)'
    BY StaysKnown DEF AgentKnows
<1>3. FilesSurvive'
    BY DEF WorldInv, AgentKnows, FilesSurvive
<1> QED
    BY <1>1, <1>2, <1>3 DEF AgentKnows, Known, Refused

-----------------------------------------------------------------------------
(* The middleware and the handlers. *)

\* A request moves on in its slot, the same request on the same certificate, and the agent goes on waiting for it.
LEMMA GoesOn ==
    ASSUME Inv, RowsKeep, NEW s \in Slots, NEW r \in Call,
           calls[s].at # "none", calls' = [calls EXCEPT ![s] = r],
           UNCHANGED <<situation, agent, disk, docs, acts>>, faults' \in {faults, faults + 1},
           r.at # "none", r.kind = calls[s].kind, r.cert = calls[s].cert, r.cut = calls[s].cut,
           r.cut => r.at \notin {"admitted", "recorded"}, r.at = "recorded" => r.kind = "beat",
           s = "late" => r.at # "answered",
           r.reply.fresh \in CertIDs => certs'[r.reply.fresh].row # "none",
           r.at = "answered" /\ r.reply.status = 401 => Refused(calls[s].cert),
           r.at = "answered" /\ r.reply.status = 200 /\ r.kind = "renew" => r.reply.fresh \in CertIDs
    PROVE  WorldInv' /\ FlightInv'
<1>1. calls \in [Slots -> Call] /\ SlotInv(s) /\ AgentKnows /\ AgentWaits /\ WorldInv
    BY DEF Inv, FlightInv
<1>2. /\ calls' \in [Slots -> Call] /\ calls'[s] = r
      /\ \A t \in Slots \ {s} : calls'[t] = calls[t]
    BY <1>1
<1>3. WorldInv' /\ AgentKnows'
    BY <1>1, AgentKeeps DEF WorldInv
<1>4. AgentWaits'
    <2>1. CASE s = "awaited"
        BY <2>1, <1>1, <1>2 DEF AgentWaits, Answer
    <2>2. CASE s # "awaited"
        <3>1. calls'["awaited"] = calls["awaited"]
            BY <2>2, <1>2 DEF Slots
        <3> QED
            BY <3>1, <1>1 DEF AgentWaits, Answer
    <2> QED
        BY <2>1, <2>2
<1>5. SlotInv(s)'
    <2>1. calls[s].cert \in CertIDs /\ certs'[calls[s].cert].row # "none"
        BY <1>1, StaysKnown DEF SlotInv
    <2>2. Refused(calls[s].cert) => Refused(r.cert)'
        BY <1>1, <2>1, StaysKnown DEF SlotInv, Refused
    <2>3. Withdrawn => Withdrawn'
        BY DEF RowsKeep
    <2> QED
        BY <1>1, <1>2, <2>1, <2>2, <2>3 DEF SlotInv, Known, Refused
<1>6. \A t \in Slots \ {s} : SlotInv(t)'
    BY <1>2, SlotKeeps DEF Inv, FlightInv
<1> QED
    BY <1>2, <1>3, <1>4, <1>5, <1>6 DEF FlightInv

\* A late request is over when it is answered: nobody waits for it.
LEMMA IsOver ==
    ASSUME Inv, RowsKeep, calls' = [calls EXCEPT !["late"] = NoCall],
           UNCHANGED <<situation, agent, disk, docs, acts>>, faults' \in {faults, faults + 1}
    PROVE  WorldInv' /\ FlightInv'
<1>1. calls \in [Slots -> Call] /\ AgentKnows /\ AgentWaits /\ WorldInv
    BY DEF Inv, FlightInv
<1>2. /\ calls' \in [Slots -> Call] /\ calls'["late"] = NoCall /\ calls'["awaited"] = calls["awaited"]
    BY <1>1, EmptyCall DEF Slots
<1>3. WorldInv' /\ AgentKnows'
    BY <1>1, AgentKeeps DEF WorldInv
<1>4. AgentWaits'
    BY <1>1, <1>2 DEF AgentWaits, Answer
<1>5. SlotInv("late")'
    BY <1>2, EmptySlot DEF Slots
<1>6. SlotInv("awaited")'
    BY <1>2, SlotKeeps DEF Slots, Inv, FlightInv
<1> QED
    BY <1>2, <1>3, <1>4, <1>5, <1>6 DEF FlightInv, Slots

\* An answer: a rejection is of a refused certificate, and a renewal's success carries one that was issued.
LEMMA IsAnswered ==
    ASSUME Inv, RowsKeep, NEW s \in Slots, calls[s].at # "none",
           NEW reply \in Reply, Respond(s, reply),
           UNCHANGED <<situation, agent, disk, docs, acts>>, faults' \in {faults, faults + 1},
           reply.fresh \in CertIDs => certs'[reply.fresh].row # "none",
           reply.status = 401 => Refused(calls[s].cert),
           reply.status = 200 /\ calls[s].kind = "renew" => reply.fresh \in CertIDs
    PROVE  WorldInv' /\ FlightInv'
<1>1. CASE s = "late"
    <2>1. calls' = [calls EXCEPT !["late"] = NoCall]
        BY <1>1 DEF Respond
    <2> QED
        BY <2>1, IsOver
<1>2. CASE s # "late"
    <2> DEFINE r == [calls[s] EXCEPT !.at = "answered", !.reply = reply]
    <2>1. calls \in [Slots -> Call] /\ calls[s] \in Call
        BY DEF Inv, FlightInv
    <2>2. /\ r \in Call
          /\ r.at = "answered" /\ r.kind = calls[s].kind /\ r.cert = calls[s].cert /\ r.cut = calls[s].cut
          /\ r.reply = reply
        BY <2>1 DEF Call
    <2>3. calls' = [calls EXCEPT ![s] = r]
        BY <1>2, <2>1 DEF Respond
    <2> HIDE DEF r
    <2>4. /\ r.at # "none" /\ (r.cut => r.at \notin {"admitted", "recorded"}) /\ (r.at = "recorded" => r.kind = "beat")
          /\ s = "late" => r.at # "answered"
          /\ r.reply.fresh \in CertIDs => certs'[r.reply.fresh].row # "none"
          /\ r.at = "answered" /\ r.reply.status = 401 => Refused(calls[s].cert)
          /\ r.at = "answered" /\ r.reply.status = 200 /\ r.kind = "renew" => r.reply.fresh \in CertIDs
        BY <1>2, <2>2
    <2> QED
        BY <2>2, <2>3, <2>4, GoesOn
<1> QED
    BY <1>1, <1>2

\* What an answer says.
LEMMA Saying ==
    ASSUME NEW x \in {200, 401, 403, 429, 500}, NEW w \in BOOLEAN, NEW c \in CertIDs \cup {None}
    PROVE  Says(x, w, c) \in Reply /\ Says(x, w, c).status = x /\ Says(x, w, c).fresh = c
BY DEF Says, Reply

LEMMA AnsweredKeeps ==
    ASSUME Inv, RowsKeep, NEW s \in Slots, calls[s].at # "none",
           NEW x \in {401, 403, 429, 500}, Answered(s, x),
           UNCHANGED <<situation, agent, disk, docs, acts>>, faults' \in {faults, faults + 1},
           x = 401 => Refused(calls[s].cert)
    PROVE  WorldInv' /\ FlightInv'
<1> DEFINE reply == Says(x, FALSE, None)
<1>1. reply \in Reply /\ reply.status = x /\ reply.fresh = None
    BY DEF Says, Reply
<1>2. Respond(s, reply)
    BY DEF Answered
<1> HIDE DEF reply
<1> QED
    BY <1>1, <1>2, IsAnswered, Identifiers

\* The rows a handler leaves alone.
LEMMA ServeRows ==
    ASSUME Inv, UNCHANGED <<now, certs, suspended>>, host' \in Host, host'.row = host.row
    PROVE  RowsInv' /\ RowsKeep
BY RowsStand DEF Inv, RowsInv, RowsKeep

LEMMA ServerStands ==
    ASSUME Inv, UNCHANGED <<now, server>>
    PROVE  RowsInv' /\ RowsKeep
BY ServeRows DEF server, Inv, RowsInv

LEMMA SlotTyped ==
    ASSUME Inv, NEW s \in Slots
    PROVE  /\ calls \in [Slots -> Call] /\ calls[s] \in Call /\ SlotInv(s)
           /\ host \in Host /\ faults \in Nat
BY DEF Inv, FlightInv, RowsInv, WorldInv

\* requireAgent lets in what is not refused, and what set out after a withdrawal is.
LEMMA RequireAgentKeeps ==
    ASSUME Inv, NEW s \in Slots, RequireAgent(s)
    PROVE  Inv'
<1>1. /\ calls[s].at = "sent"
      /\ UNCHANGED <<now, server>> /\ UNCHANGED <<situation, agent, disk, docs, acts>> /\ faults' = faults
    BY DEF RequireAgent, Beyond
<1>2. RowsInv' /\ RowsKeep
    BY <1>1, ServerStands
<1>3. CASE Refused(calls[s].cert) /\ Answered(s, 401)
    BY <1>1, <1>2, <1>3, AnsweredKeeps DEF Inv
<1>4. CASE Answered(s, 403)
    BY <1>1, <1>2, <1>4, AnsweredKeeps DEF Inv
<1>5. CASE /\ ~Refused(calls[s].cert)
           /\ calls' = [calls EXCEPT ![s].at = "admitted", ![s].seen = [d \in Docs |-> host.held[d].digest]]
    <2> DEFINE seen == [d \in Docs |-> host.held[d].digest]
    <2> DEFINE r == [calls[s] EXCEPT !.at = "admitted", !.seen = seen]
    <2>1. seen \in [Docs -> Digest]
        BY SlotTyped DEF Host
    <2>2. calls' = [calls EXCEPT ![s] = r]
        BY <1>5, SlotTyped
    <2> HIDE DEF seen
    <2>3. /\ r \in Call
          /\ r.at = "admitted" /\ r.kind = calls[s].kind /\ r.cert = calls[s].cert /\ r.cut = calls[s].cut
          /\ r.reply = calls[s].reply
        BY <2>1, SlotTyped DEF Call
    <2> HIDE DEF r
    <2>4. ~r.cut
        BY <1>5, <2>3, SlotTyped DEF SlotInv, Refused, Withdrawn, Call
    <2>5. r.reply.fresh \in CertIDs => certs'[r.reply.fresh].row # "none"
        BY <1>2, <2>3, SlotTyped, StaysKnown DEF SlotInv
    <2> QED
        BY <1>1, <1>2, <2>2, <2>3, <2>4, <2>5, GoesOn DEF Inv
<1> QED
    BY <1>3, <1>4, <1>5 DEF RequireAgent

LEMMA StoreFailsKeeps ==
    ASSUME Inv, NEW s \in Slots, StoreFails(s)
    PROVE  Inv'
<1>1. /\ calls[s].at # "none" /\ Answered(s, 500)
      /\ UNCHANGED <<now, server>> /\ UNCHANGED <<situation, agent, disk, docs, acts>> /\ faults' = faults + 1
    BY DEF StoreFails, Beyond, Fail
<1>2. RowsInv' /\ RowsKeep
    BY <1>1, ServerStands
<1> QED
    BY <1>1, <1>2, AnsweredKeeps DEF Inv

LEMMA RateLimitedKeeps ==
    ASSUME Inv, NEW s \in Slots, RateLimited(s)
    PROVE  Inv'
<1>1. /\ calls[s].at # "none" /\ Answered(s, 429)
      /\ UNCHANGED <<now, server>> /\ UNCHANGED <<situation, agent, disk, docs, acts>> /\ faults' = faults + 1
    BY DEF RateLimited, Beyond, Fail
<1>2. RowsInv' /\ RowsKeep
    BY <1>1, ServerStands
<1> QED
    BY <1>1, <1>2, AnsweredKeeps DEF Inv

\* A beat that was let in goes on as one.
LEMMA RecordHeartbeatKeeps ==
    ASSUME Inv, NEW s \in Slots, RecordHeartbeat(s)
    PROVE  Inv'
<1>1. /\ calls[s].at = "admitted"
      /\ UNCHANGED <<now, server>> /\ UNCHANGED <<situation, agent, disk, docs, acts>> /\ faults' = faults
    BY DEF RecordHeartbeat, Beyond
<1>2. RowsInv' /\ RowsKeep
    BY <1>1, ServerStands
<1>3. CASE Answered(s, 500)
    BY <1>1, <1>2, <1>3, AnsweredKeeps DEF Inv
<1>4. CASE calls' = [calls EXCEPT ![s].at = "recorded"]
    <2> DEFINE r == [calls[s] EXCEPT !.at = "recorded"]
    <2>1. calls' = [calls EXCEPT ![s] = r]
        BY <1>4, SlotTyped
    <2>2. /\ r \in Call
          /\ r.at = "recorded" /\ r.kind = calls[s].kind /\ r.cert = calls[s].cert /\ r.cut = calls[s].cut
          /\ r.reply = calls[s].reply
        BY SlotTyped DEF Call
    <2> HIDE DEF r
    <2>3. ~r.cut /\ r.kind = "beat"
        BY <1>1, <2>2, SlotTyped DEF SlotInv, RecordHeartbeat
    <2>4. r.reply.fresh \in CertIDs => certs'[r.reply.fresh].row # "none"
        BY <1>2, <2>2, SlotTyped, StaysKnown DEF SlotInv
    <2> QED
        BY <1>1, <1>2, <2>1, <2>2, <2>3, <2>4, GoesOn DEF Inv
<1> QED
    BY <1>3, <1>4 DEF RecordHeartbeat

\* A document changes the host's row in that column only.
LEMMA StoreDocumentKeeps ==
    ASSUME Inv, NEW s \in Slots, StoreDocument(s)
    PROVE  Inv'
<1> DEFINE d == Kinds[calls[s].stored + 1]
<1> DEFINE r == [calls[s] EXCEPT !.stored = calls[s].stored + 1]
<1>1. /\ calls[s].at = "recorded" /\ calls[s].stored < 3 /\ calls[s].stored \in 0 .. 3
      /\ calls' = [calls EXCEPT ![s] = r]
      /\ UNCHANGED <<now, certs, suspended>> /\ UNCHANGED <<situation, agent, disk, docs, acts>>
      /\ faults' \in {faults, faults + 1}
      /\ \/ host' = host
         \/ host' = [host EXCEPT !.held[d] = [doc |-> calls[s].docs[d], digest |-> DigestOf(d, calls[s].docs[d])]]
    BY SlotTyped DEF StoreDocument, Beyond, Fail, Call
<1>2. d \in Docs
    BY <1>1 DEF Kinds, Docs
<1>3. calls[s].docs[d] \in Nat
    BY <1>2, SlotTyped DEF Call
<1> HIDE DEF d
<1>4. host' \in Host /\ host'.row = host.row
    <2>1. DigestOf(d, calls[s].docs[d]) \in Digest
        <3>1. "document" \in {"", "document", "lines"} /\ calls[s].docs[d] \in Int
            BY <1>3
        <3> QED
            BY <3>1 DEF DigestOf, Digest
    <2> DEFINE held == [doc |-> calls[s].docs[d], digest |-> DigestOf(d, calls[s].docs[d])]
    <2>2. held \in [doc : Int, digest : Digest]
        BY <1>3, <2>1
    <2> HIDE DEF held
    <2>3. [host EXCEPT !.held[d] = held] \in Host /\ [host EXCEPT !.held[d] = held].row = host.row
        BY <1>2, <2>2, SlotTyped DEF Host
    <2> QED
        BY <1>1, <2>3, SlotTyped DEF held
<1>5. RowsInv' /\ RowsKeep
    BY <1>1, <1>4, ServeRows
<1>6. /\ r \in Call
      /\ r.at = "recorded" /\ r.kind = calls[s].kind /\ r.cert = calls[s].cert /\ r.cut = calls[s].cut
      /\ r.reply = calls[s].reply
    <2>1. calls[s] \in Call /\ calls[s].stored + 1 \in 0 .. 3
        BY <1>1, SlotTyped
    <2>2. r \in Call
        BY <2>1 DEF Call
    <2> QED
        BY <1>1, <2>1 DEF Call
<1> HIDE DEF r
<1>7. ~r.cut /\ r.kind = "beat"
    BY <1>1, <1>6, SlotTyped DEF SlotInv
<1>8. r.reply.fresh \in CertIDs => certs'[r.reply.fresh].row # "none"
    BY <1>5, <1>6, SlotTyped, StaysKnown DEF SlotInv
<1> QED
    BY <1>1, <1>5, <1>6, <1>7, <1>8, GoesOn DEF Inv

LEMMA AnswerHeartbeatKeeps ==
    ASSUME Inv, NEW s \in Slots, AnswerHeartbeat(s)
    PROVE  Inv'
<1> DEFINE w == Wanted(calls[s]) # {}
<1> DEFINE reply == Says(200, w, None)
<1>1. /\ calls[s].at = "recorded" /\ Respond(s, reply)
      /\ UNCHANGED <<now, server>> /\ UNCHANGED <<situation, agent, disk, docs, acts>> /\ faults' = faults
    BY DEF AnswerHeartbeat, Beyond
<1>2. RowsInv' /\ RowsKeep
    BY <1>1, ServerStands
<1>3. w \in BOOLEAN
    OBVIOUS
<1> HIDE DEF w
<1>4. reply \in Reply /\ reply.status = 200 /\ reply.fresh = None
    BY <1>3, Saying
<1> HIDE DEF reply
<1>5. calls[s].at # "none" /\ calls[s].kind # "renew"
    BY <1>1, SlotTyped DEF SlotInv
<1> QED
    BY <1>1, <1>2, <1>4, <1>5, IsAnswered, Identifiers DEF Inv

\* A renewal that finds room answers with the certificate it issued.
LEMMA RenewCertificateKeeps ==
    ASSUME Inv, NEW s \in Slots, RenewCertificate(s)
    PROVE  Inv'
<1>1. /\ calls[s].at = "admitted"
      /\ UNCHANGED <<now, host, suspended>> /\ UNCHANGED <<situation, agent, disk, docs, acts>> /\ faults' = faults
    BY DEF RenewCertificate, Beyond
<1>2. CASE UNCHANGED certs /\ (Answered(s, 500) \/ Answered(s, 429))
    <2>1. RowsInv' /\ RowsKeep
        BY <1>1, <1>2, ServerStands DEF server
    <2> QED
        BY <1>1, <1>2, <2>1, AnsweredKeeps DEF Inv
<1>3. CASE /\ RoomForOne /\ SomeFresh
           /\ certs' = [certs EXCEPT ![FreshID] = Issued, ![calls[s].cert] = Retire(calls[s].cert)]
           /\ Respond(s, Says(200, FALSE, FreshID))
    <2>1. calls[s].cert \in CertIDs /\ certs[calls[s].cert].row # "none"
        BY <1>1, SlotTyped DEF SlotInv, Known
    <2>2. /\ FreshID \in CertIDs /\ FreshID >= 1
          /\ \A b \in CertIDs : certs[b].row = "none" <=> b >= FreshID
        BY <1>3, Fresh DEF Inv, RowsInv
    <2> DEFINE f == FreshID
    <2> DEFINE c == calls[s].cert
    <2> DEFINE reply == Says(200, FALSE, f)
    <2>3. reply \in Reply /\ reply.status = 200 /\ reply.fresh = f
        BY <2>2 DEF Says, Reply
    <2>4. certs' = [certs EXCEPT ![f] = Issued, ![c] = Retire(c)]
        BY <1>3
    <2>5. Respond(s, reply)
        BY <1>3
    <2> HIDE DEF f, c, reply
    <2>6. /\ f \in CertIDs /\ f >= 1 /\ \A b \in CertIDs : certs[b].row = "none" <=> b >= f
          /\ c \in CertIDs /\ certs[c].row # "none"
        BY <2>1, <2>2 DEF f, c
    <2>7. RowsKeep /\ certs'[f].row = "live"
        <3>1. now' = now /\ host' = host /\ suspended' = suspended /\ RowsInv /\ RoomForOne
            BY <1>1, <1>3 DEF Inv
        <3> QED
            BY <2>4, <2>6, <3>1, RenewalRows
    <2>8. RowsInv'
        BY <2>7 DEF RowsKeep, RowsInv
    <2>9. WorldInv' /\ FlightInv'
        <3>1. /\ reply.fresh \in CertIDs /\ certs'[reply.fresh].row # "none"
              /\ reply.status # 401 /\ calls[s].at # "none" /\ faults' \in {faults, faults + 1}
            BY <1>1, <2>3, <2>6, <2>7
        <3> QED
            BY <1>1, <2>3, <2>5, <2>7, <3>1, IsAnswered
    <2> QED
        BY <2>8, <2>9 DEF Inv
<1> QED
    BY <1>2, <1>3 DEF RenewCertificate

\* Whatever the control plane does with a request.
LEMMA ServeKeeps ==
    ASSUME Inv, NEW s \in Slots, Serve(s)
    PROVE  Inv'
BY RequireAgentKeeps, StoreFailsKeeps, RecordHeartbeatKeeps, StoreDocumentKeeps, AnswerHeartbeatKeeps,
   RateLimitedKeeps, RenewCertificateKeeps DEF Serve

-----------------------------------------------------------------------------
(* Operators, and the clock. *)

\* What an operator does reaches no request and nothing of the agent's.
LEMMA OperateKeeps ==
    ASSUME Inv, Operate
    PROVE  Inv'
<1>1. UNCHANGED <<situation, now, calls, agent, disk, faults>> /\ acts' = acts + 1
    BY DEF Operate, RevokeHost, DeleteHost, Suspend, Change, Idle, Act
<1>2. RowsKeep
    <2>1. CASE RevokeHost
        BY <2>1, RevokeRows DEF Inv
    <2>2. CASE DeleteHost
        BY <2>2, DeleteRows DEF Inv
    <2>3. CASE Suspend \/ \E d \in Docs : Change(d)
        <3>1. UNCHANGED <<now, certs, host>> /\ suspended' \in BOOLEAN
            BY <2>3 DEF Suspend, Change, Idle, server, Inv, RowsInv
        <3> QED
            BY <3>1, RowsStand DEF Inv, RowsInv
    <2> QED
        BY <2>1, <2>2, <2>3 DEF Operate
<1>3. RowsInv'
    BY <1>2 DEF RowsKeep, RowsInv
<1>4. WorldInv'
    <2>1. situation.changes \in Nat
        BY ContactAssumption DEF Inv, WorldInv
    <2>2. docs' \in [Docs -> 0 .. situation.changes]
        <3>1. CASE docs' = docs
            BY <3>1 DEF Inv, WorldInv
        <3>2. ASSUME NEW d \in Docs, Change(d)
              PROVE  docs' \in [Docs -> 0 .. situation.changes]
            <4>1. docs \in [Docs -> 0 .. situation.changes] /\ docs[d] + 1 \in 0 .. situation.changes
                BY <2>1, <3>2 DEF Inv, WorldInv, Change
            <4> QED
                BY <3>2, <4>1 DEF Change
        <3> QED
            BY <3>1, <3>2 DEF Operate, RevokeHost, DeleteHost, Suspend
    <2> QED
        BY <1>1, <2>2 DEF Inv, WorldInv
<1>5. FlightInv'
    <2>1. \A s \in Slots : SlotInv(s)'
        BY <1>1, <1>2, SlotKeeps DEF Inv, FlightInv
    <2>2. AgentKnows'
        BY <1>1, <1>2, AgentKeeps DEF Inv, FlightInv
    <2> QED
        BY <1>1, <2>1, <2>2 DEF Inv, FlightInv, AgentWaits, Answer
<1> QED
    BY <1>3, <1>4, <1>5 DEF Inv

\* The clock moves while the agent waits for nothing.
LEMMA TickKeeps ==
    ASSUME Inv, Tick
    PROVE  Inv'
<1>1. RowsKeep
    BY TickRows DEF Inv, WorldInv
<1>2. RowsInv'
    BY <1>1 DEF RowsKeep, RowsInv
<1>3. UNCHANGED <<situation, calls, disk, docs, acts, faults>> /\ agent' = [agent EXCEPT !.served = FALSE]
    BY DEF Tick
<1>4. /\ agent' \in Agent
      /\ agent'.at = agent.at /\ agent'.conn = agent.conn /\ agent'.fresh = agent.fresh
    BY <1>3 DEF Inv, FlightInv, AgentKnows, Agent
<1>5. WorldInv'
    BY <1>3 DEF Inv, WorldInv
<1>6. \A s \in Slots : SlotInv(s)'
    BY <1>1, <1>3, SlotKeeps DEF Inv, FlightInv
<1>7. AgentKnows'
    <2>1. /\ disk.current \in CertIDs => certs'[disk.current].row # "none"
          /\ disk.previous \in CertIDs => certs'[disk.previous].row # "none"
          /\ agent.conn \in CertIDs => certs'[agent.conn].row # "none"
          /\ agent.fresh \in CertIDs => certs'[agent.fresh].row # "none"
        BY <1>1, StaysKnown DEF Inv, FlightInv, AgentKnows
    <2>2. agent.at = "parked" => Refused(agent.conn)'
        BY <1>1, <1>4, StaysKnown DEF Inv, FlightInv, AgentKnows, Refused
    <2>3. FilesSurvive'
        BY <1>3, <1>4 DEF Inv, FlightInv, AgentKnows, FilesSurvive
    <2> QED
        BY <1>3, <1>4, <2>1, <2>2, <2>3 DEF Inv, FlightInv, AgentKnows, Known, Refused
<1>8. AgentWaits'
    BY <1>3, <1>4 DEF Inv, FlightInv, AgentWaits, Answer
<1> QED
    BY <1>2, <1>3, <1>5, <1>6, <1>7, <1>8 DEF Inv, FlightInv

-----------------------------------------------------------------------------
(* The agent. *)

\* While the agent acts, the control plane stands.
LEMMA AgentActs ==
    ASSUME Inv, UNCHANGED <<now, server>>, UNCHANGED <<situation, docs, acts>>, faults' \in {faults, faults + 1}
    PROVE  RowsInv' /\ RowsKeep /\ WorldInv'
BY ServerStands DEF Inv, WorldInv

\* What it presents was issued.
LEMMA Presents ==
    ASSUME Inv
    PROVE  /\ Presentable \in CertIDs \cup {None}
           /\ Presentable # None => Presentable \in CertIDs /\ certs[Presentable].row # "none"
           /\ LoadCredential \in CertIDs \cup {None}
<1>1. /\ agent.conn \in CertIDs \cup {None}
      /\ Known(disk.current) /\ Known(disk.previous) /\ Known(agent.conn)
    BY DEF Inv, FlightInv, AgentKnows, Agent
<1>2. LoadCredential \in CertIDs \cup {None} /\ Known(LoadCredential)
    BY <1>1, Identifiers DEF LoadCredential, Known
<1> QED
    BY <1>1, <1>2, Identifiers DEF Presentable, Known

\* A request that the agent sends is in order, and is the one it waits for.
LEMMA SentCalls ==
    ASSUME Inv, RowsKeep, UNCHANGED <<now, server>>, NEW kind \in {"beat", "renew"}, NEW cert \in CertIDs,
           certs[cert].row # "none", Send(kind, cert)
    PROVE  /\ calls' \in [Slots -> Call] /\ \A s \in Slots : SlotInv(s)'
           /\ Answer'.at = "sent" /\ Answer'.kind = kind /\ Answer'.cert = cert
<1> DEFINE full == (kind = "beat" /\ agent.want)
<1> DEFINE cut == (host.row # "live")
<1> DEFINE seen == NoCall.seen
<1> DEFINE nothing == NoCall.reply
<1> DEFINE c == [at |-> "sent", kind |-> kind, cert |-> cert, docs |-> docs, full |-> full, stored |-> 0,
                 seen |-> seen, reply |-> nothing, cut |-> cut]
<1>1. docs \in [Docs -> Nat]
    BY ContactAssumption DEF Inv, WorldInv
<1>2. calls \in [Slots -> Call] /\ calls' = [calls EXCEPT !["awaited"] = c]
    BY DEF Inv, FlightInv, Send
<1>3. full \in BOOLEAN /\ cut \in BOOLEAN
    OBVIOUS
<1>4. cut <=> Withdrawn
    BY DEF Withdrawn
<1>5. seen \in [Docs -> Digest] /\ nothing \in Reply /\ nothing.fresh = None
    BY EmptyCall DEF Call
<1> HIDE DEF full, cut, seen, nothing
<1>6. /\ c \in Call
      /\ c.at = "sent" /\ c.kind = kind /\ c.cert = cert /\ c.cut = cut /\ c.reply.fresh = None
    BY <1>1, <1>3, <1>5 DEF Call
<1> HIDE DEF c
<1>7. /\ calls' \in [Slots -> Call] /\ calls'["awaited"] = c /\ calls'["late"] = calls["late"]
    BY <1>2, <1>6 DEF Slots
<1>8. SlotInv("late")'
    BY <1>7, SlotKeeps DEF Slots, Inv, FlightInv
<1>9. SlotInv("awaited")'
    BY <1>4, <1>6, <1>7, Identifiers DEF SlotInv, Known, RowsKeep, server, Withdrawn
<1> QED
    BY <1>6, <1>7, <1>8, <1>9 DEF Slots, Answer

\* Once it has heard, it waits for none.
LEMMA HeardCalls ==
    ASSUME Inv, RowsKeep, NEW left \in {NoCall, calls["late"]},
           calls' = [calls EXCEPT !["awaited"] = NoCall, !["late"] = left]
    PROVE  /\ calls' \in [Slots -> Call] /\ \A s \in Slots : SlotInv(s)'
           /\ Answer'.at = "none"
<1>1. calls \in [Slots -> Call] /\ calls["late"] \in Call
    BY DEF Inv, FlightInv, Slots
<1>2. /\ calls' \in [Slots -> Call] /\ calls'["awaited"] = NoCall /\ calls'["late"] = left
    BY <1>1, EmptyCall DEF Slots
<1>3. SlotInv("awaited")'
    BY <1>2, EmptySlot DEF Slots
<1>4. SlotInv("late")'
    BY <1>2, EmptySlot, SlotKeeps DEF Slots, Inv, FlightInv
<1> QED
    BY <1>2, <1>3, <1>4, EmptyCall DEF Slots, Answer

LEMMA HearsCalls ==
    ASSUME Inv, RowsKeep, Hear
    PROVE  /\ calls' \in [Slots -> Call] /\ \A s \in Slots : SlotInv(s)'
           /\ Answer'.at = "none"
<1>1. calls \in [Slots -> Call]
    BY DEF Inv, FlightInv
<1>2. calls' = [calls EXCEPT !["awaited"] = NoCall, !["late"] = calls["late"]]
    BY <1>1 DEF Hear, Slots
<1> QED
    BY <1>2, HeardCalls

LEMMA SameCalls ==
    ASSUME Inv, RowsKeep, calls' = calls
    PROVE  /\ calls' \in [Slots -> Call] /\ \A s \in Slots : SlotInv(s)'
           /\ Answer' = Answer
BY SlotKeeps DEF Inv, FlightInv, Answer

\* What the agent holds after a step of its own, with the rows as they were.
LEMMA AgentMoves ==
    ASSUME Inv, RowsInv', RowsKeep, WorldInv', UNCHANGED <<now, server>>,
           calls' \in [Slots -> Call], \A s \in Slots : SlotInv(s)',
           agent' \in Agent, disk' \in [current : Pair, previous : Pair],
           Known(disk'.current), Known(disk'.previous), Known(agent'.conn), Known(agent'.fresh),
           agent'.at \in {"promote", "kept"} => agent'.fresh \in CertIDs,
           agent'.at = "parked" => agent'.conn \in CertIDs /\ Refused(agent'.conn),
           FilesSurvive', AgentWaits'
    PROVE  Inv'
<1>1. AgentKnows'
    BY DEF AgentKnows, Known, Refused, server
<1> QED
    BY <1>1 DEF Inv, FlightInv

\* The agent and its files as they stand.
LEMMA AgentHas ==
    ASSUME Inv
    PROVE  /\ agent \in Agent /\ disk \in [current : Pair, previous : Pair] /\ faults \in Nat
           /\ Known(disk.current) /\ Known(disk.previous) /\ Known(agent.conn) /\ Known(agent.fresh)
           /\ agent.at \in {"promote", "kept"} => agent.fresh \in CertIDs
           /\ FilesSurvive /\ AgentWaits
BY DEF Inv, FlightInv, AgentKnows, WorldInv

\* With the files untouched, the agent's state matters to them only where it is not writing them.
LEMMA FilesStay ==
    ASSUME Inv, UNCHANGED <<situation, disk>>, faults' \in {faults, faults + 1},
           agent'.at # "kept", agent.at # "kept" \/ faults' = faults + 1
    PROVE  FilesSurvive'
BY AgentHas DEF FilesSurvive

\* A request sets out on the connection's certificate.
LEMMA SendKeeps ==
    ASSUME Inv, NEW kind \in {"beat", "renew"}, Presentable # None, agent.at \in {"idle", "due"},
           Send(kind, Presentable), agent' = [agent EXCEPT !.at = kind, !.conn = Presentable],
           UNCHANGED Outside, UNCHANGED <<disk, faults>>
    PROVE  Inv'
<1> DEFINE c == Presentable
<1>1. c \in CertIDs /\ certs[c].row # "none" /\ Send(kind, c) /\ agent' = [agent EXCEPT !.at = kind, !.conn = c]
    BY Presents
<1> HIDE DEF c
<1>2. UNCHANGED <<now, server>> /\ UNCHANGED <<situation, docs, acts>> /\ UNCHANGED <<disk, faults>>
    BY DEF Outside
<1>3. RowsInv' /\ RowsKeep /\ WorldInv'
    BY <1>2, AgentActs
<1>4. /\ calls' \in [Slots -> Call] /\ \A s \in Slots : SlotInv(s)'
      /\ Answer'.at = "sent" /\ Answer'.kind = kind /\ Answer'.cert = c
    BY <1>1, <1>2, <1>3, SentCalls
<1>5. agent' \in Agent /\ agent'.at = kind /\ agent'.conn = c /\ agent'.fresh = agent.fresh
    BY <1>1, AgentHas DEF Agent
<1>6. FilesSurvive'
    BY <1>2, <1>5, FilesStay
<1>7. AgentWaits'
    BY <1>4, <1>5 DEF AgentWaits
<1> QED
    BY <1>1, <1>2, <1>3, <1>4, <1>5, <1>6, <1>7, AgentHas, AgentMoves DEF Known

LEMMA BeatKeeps ==
    ASSUME Inv, Beat
    PROVE  Inv'
BY SendKeeps DEF Beat

\* An answer to a beat parks the agent on a certificate that is refused, or not at all.
LEMMA HearBeatKeeps ==
    ASSUME Inv, HearBeat
    PROVE  Inv'
<1>1. UNCHANGED <<now, server>> /\ UNCHANGED <<situation, docs, acts>> /\ UNCHANGED <<disk, faults>>
    BY DEF HearBeat, Outside
<1>2. RowsInv' /\ RowsKeep /\ WorldInv'
    BY <1>1, AgentActs
<1>3. /\ calls' \in [Slots -> Call] /\ \A s \in Slots : SlotInv(s)'
      /\ Answer'.at = "none"
    BY <1>2, HearsCalls DEF HearBeat
<1>4. /\ agent.at = "beat" /\ Answer.at = "answered" /\ SlotInv("awaited") /\ Answer \in Call
      /\ Answer.cert = agent.conn /\ Answer.cert \in CertIDs
      /\ Answer.reply.status = 401 => Refused(Answer.cert)
    BY AgentHas, SlotTyped DEF HearBeat, Hear, AgentWaits, SlotInv, Answer, Slots
<1> DEFINE w == Answer.reply.want
<1>5. w \in BOOLEAN
    BY <1>4 DEF Call, Reply
<1> HIDE DEF w
<1>6. \/ agent' = [agent EXCEPT !.at = "due", !.want = w]
      \/ agent' = [agent EXCEPT !.at = "idle"]
      \/ agent' = [agent EXCEPT !.at = "parked"] /\ Refused(agent.conn) /\ agent.conn \in CertIDs
    BY <1>4 DEF HearBeat, Parks, w
<1>7. /\ agent' \in Agent /\ agent'.conn = agent.conn /\ agent'.fresh = agent.fresh
      /\ agent'.at \in {"due", "idle", "parked"}
      /\ agent'.at = "parked" => Refused(agent.conn) /\ agent.conn \in CertIDs
    BY <1>5, <1>6, AgentHas DEF Agent
<1>8. FilesSurvive'
    BY <1>1, <1>4, <1>7, FilesStay
<1>9. AgentWaits'
    BY <1>3, <1>7 DEF AgentWaits
<1> QED
    BY <1>1, <1>2, <1>3, <1>7, <1>8, <1>9, AgentHas, AgentMoves

LEMMA MaybeRenewKeeps ==
    ASSUME Inv, MaybeRenew
    PROVE  Inv'
<1>1. /\ UNCHANGED Outside /\ UNCHANGED <<disk, faults>> /\ agent.at = "due"
      /\ UNCHANGED <<now, server>> /\ UNCHANGED <<situation, docs, acts>>
    BY DEF MaybeRenew, Outside
<1>2. CASE agent' = [agent EXCEPT !.at = "idle", !.served = TRUE] /\ calls' = calls
    <2>1. RowsInv' /\ RowsKeep /\ WorldInv'
        BY <1>1, AgentActs
    <2>2. /\ calls' \in [Slots -> Call] /\ \A s \in Slots : SlotInv(s)'
          /\ Answer' = Answer
        BY <1>2, <2>1, SameCalls
    <2>3. agent' \in Agent /\ agent'.at = "idle" /\ agent'.conn = agent.conn /\ agent'.fresh = agent.fresh
        BY <1>2, AgentHas DEF Agent
    <2>4. FilesSurvive'
        BY <1>1, <2>3, FilesStay
    <2>5. AgentWaits'
        BY <1>1, <2>2, <2>3, AgentHas DEF AgentWaits
    <2> QED
        BY <1>1, <2>1, <2>2, <2>3, <2>4, <2>5, AgentHas, AgentMoves
<1>3. CASE /\ Presentable # None /\ Send("renew", Presentable)
           /\ agent' = [agent EXCEPT !.at = "renew", !.conn = Presentable]
    BY <1>1, <1>3, SendKeeps
<1> QED
    BY <1>2, <1>3 DEF MaybeRenew

\* An answer to a renewal is promoted where it carries a certificate.
LEMMA HearRenewalKeeps ==
    ASSUME Inv, HearRenewal
    PROVE  Inv'
<1>1. UNCHANGED <<now, server>> /\ UNCHANGED <<situation, docs, acts>> /\ UNCHANGED <<disk, faults>>
    BY DEF HearRenewal, Outside
<1>2. RowsInv' /\ RowsKeep /\ WorldInv'
    BY <1>1, AgentActs
<1>3. /\ calls' \in [Slots -> Call] /\ \A s \in Slots : SlotInv(s)'
      /\ Answer'.at = "none"
    BY <1>2, HearsCalls DEF HearRenewal
<1> DEFINE c == Answer.reply.fresh
<1>4. /\ agent.at = "renew" /\ Answer.at = "answered"
      /\ Answer.reply.status = 200 => c \in CertIDs
      /\ Known(c)
    BY AgentHas, SlotTyped DEF HearRenewal, Hear, AgentWaits, SlotInv, Answer, Slots
<1>5. \/ agent' = [agent EXCEPT !.at = "promote", !.fresh = c] /\ c \in CertIDs
      \/ agent' = [agent EXCEPT !.at = "idle", !.served = TRUE]
    BY <1>4 DEF HearRenewal
<1> HIDE DEF c
<1>6. /\ agent' \in Agent /\ agent'.conn = agent.conn
      /\ agent'.fresh \in {agent.fresh, c}
      /\ agent'.at \in {"promote", "idle"}
      /\ agent'.at = "promote" => agent'.fresh \in CertIDs
    BY <1>5, AgentHas DEF Agent
<1>7. FilesSurvive'
    BY <1>1, <1>4, <1>6, FilesStay
<1>8. AgentWaits'
    BY <1>3, <1>6 DEF AgentWaits
<1>9. Known(agent'.fresh)
    BY <1>4, <1>6, AgentHas
<1> QED
    BY <1>1, <1>2, <1>3, <1>6, <1>7, <1>8, <1>9, AgentHas, AgentMoves

\* The pair it replaces is kept before the new one is written.
LEMMA KeepPreviousKeeps ==
    ASSUME Inv, KeepPrevious
    PROVE  Inv'
<1>1. /\ UNCHANGED <<now, server>> /\ UNCHANGED <<situation, docs, acts>> /\ calls' = calls /\ faults' = faults
      /\ agent.at = "promote"
    BY DEF KeepPrevious, Outside
<1>2. RowsInv' /\ RowsKeep /\ WorldInv'
    BY <1>1, AgentActs
<1>3. /\ calls' \in [Slots -> Call] /\ \A s \in Slots : SlotInv(s)'
      /\ Answer' = Answer
    BY <1>1, <1>2, SameCalls
<1>4. /\ agent' \in Agent /\ agent'.at = "kept" /\ agent'.conn = agent.conn /\ agent'.fresh = agent.fresh
    BY AgentHas DEF KeepPrevious, Agent
<1>5. /\ disk' \in [current : Pair, previous : Pair]
      /\ disk'.current = disk.current /\ disk'.previous = disk.current
    BY AgentHas DEF KeepPrevious
<1>6. FilesSurvive'
    BY <1>1, <1>4, <1>5, AgentHas DEF FilesSurvive
<1>7. AgentWaits'
    BY <1>1, <1>3, <1>4, AgentHas DEF AgentWaits
<1> QED
    BY <1>1, <1>2, <1>3, <1>4, <1>5, <1>6, <1>7, AgentHas, AgentMoves

\* The new pair takes the place of the current one.
LEMMA WriteCurrentKeeps ==
    ASSUME Inv, WriteCurrent
    PROVE  Inv'
<1>1. /\ UNCHANGED <<now, server>> /\ UNCHANGED <<situation, docs, acts>> /\ calls' = calls /\ faults' = faults
      /\ agent.at = "kept"
    BY DEF WriteCurrent, Outside
<1>2. RowsInv' /\ RowsKeep /\ WorldInv'
    BY <1>1, AgentActs
<1>3. /\ calls' \in [Slots -> Call] /\ \A s \in Slots : SlotInv(s)'
      /\ Answer' = Answer
    BY <1>1, <1>2, SameCalls
<1>4. /\ agent' \in Agent /\ agent'.at = "idle" /\ agent'.conn = agent.conn /\ agent'.fresh = None
    BY AgentHas DEF WriteCurrent, Agent
<1>5. /\ disk' \in [current : Pair, previous : Pair]
      /\ disk'.current = agent.fresh /\ disk'.previous = disk.previous
      /\ agent.fresh \in CertIDs
    BY <1>1, AgentHas DEF WriteCurrent, Pair
<1>6. FilesSurvive'
    BY <1>1, <1>4, <1>5, AgentHas DEF FilesSurvive
<1>7. AgentWaits'
    BY <1>1, <1>3, <1>4, AgentHas DEF AgentWaits
<1>8. Known(agent'.fresh)
    BY <1>4, Identifiers DEF Known
<1> QED
    BY <1>1, <1>2, <1>3, <1>4, <1>5, <1>6, <1>7, <1>8, AgentHas, AgentMoves

LEMMA DisconnectKeeps ==
    ASSUME Inv, Disconnect
    PROVE  Inv'
<1>1. /\ UNCHANGED <<now, server>> /\ UNCHANGED <<situation, docs, acts>> /\ calls' = calls
      /\ UNCHANGED <<disk, faults>> /\ agent.at = "idle"
    BY DEF Disconnect, Outside
<1>2. RowsInv' /\ RowsKeep /\ WorldInv'
    BY <1>1, AgentActs
<1>3. /\ calls' \in [Slots -> Call] /\ \A s \in Slots : SlotInv(s)'
      /\ Answer' = Answer
    BY <1>1, <1>2, SameCalls
<1>4. /\ agent' \in Agent /\ agent'.at = "idle" /\ agent'.conn = None /\ agent'.fresh = agent.fresh
    BY <1>1, AgentHas DEF Disconnect, Agent
<1>5. FilesSurvive'
    BY <1>1, <1>4, FilesStay
<1>6. AgentWaits'
    BY <1>1, <1>3, <1>4, AgentHas DEF AgentWaits
<1>7. Known(agent'.conn)
    BY <1>4, Identifiers DEF Known
<1> QED
    BY <1>1, <1>2, <1>3, <1>4, <1>5, <1>6, <1>7, AgentHas, AgentMoves

LEMMA RunKeeps ==
    ASSUME Inv, Run
    PROVE  Inv'
<1>1. /\ UNCHANGED <<now, server>> /\ UNCHANGED <<situation, docs, acts>> /\ calls' = calls
      /\ UNCHANGED <<disk, faults>> /\ agent.at = "down"
    BY DEF Run, Outside
<1>2. RowsInv' /\ RowsKeep /\ WorldInv'
    BY <1>1, AgentActs
<1>3. /\ calls' \in [Slots -> Call] /\ \A s \in Slots : SlotInv(s)'
      /\ Answer' = Answer
    BY <1>1, <1>2, SameCalls
<1>4. /\ agent' \in Agent /\ agent'.at = "idle" /\ agent'.conn = agent.conn /\ agent'.fresh = agent.fresh
    BY <1>1, AgentHas DEF Run, Agent
<1>5. FilesSurvive'
    BY <1>1, <1>4, FilesStay
<1>6. AgentWaits'
    BY <1>1, <1>3, <1>4, AgentHas DEF AgentWaits
<1> QED
    BY <1>1, <1>2, <1>3, <1>4, <1>5, <1>6, AgentHas, AgentMoves

\* A request that is given up goes on in the other slot, unless it was answered or is lost.
LEMMA LeftCalls ==
    ASSUME Inv, RowsKeep, NEW left, left = NoCall \/ (left = Answer /\ Answer.at # "answered"),
           calls' = [calls EXCEPT !["awaited"] = NoCall, !["late"] = left]
    PROVE  /\ calls' \in [Slots -> Call] /\ \A s \in Slots : SlotInv(s)'
           /\ Answer'.at = "none"
<1>1. CASE left = NoCall
    BY <1>1, HeardCalls
<1>2. CASE left = Answer /\ Answer.at # "answered"
    <2>1. calls \in [Slots -> Call] /\ calls["awaited"] \in Call /\ SlotInv("awaited")
        BY SlotTyped DEF Slots
    <2>2. /\ calls' \in [Slots -> Call]
          /\ calls'["awaited"] = NoCall /\ calls'["late"] = calls["awaited"]
          /\ calls["awaited"].at # "answered"
        BY <1>2, <2>1, EmptyCall DEF Slots, Answer
    <2>3. SlotInv("awaited")'
        BY <2>2, EmptySlot DEF Slots
    <2>4. /\ calls["awaited"].cert \in CertIDs => certs'[calls["awaited"].cert].row # "none"
          /\ calls["awaited"].reply.fresh \in CertIDs => certs'[calls["awaited"].reply.fresh].row # "none"
          /\ Withdrawn => Withdrawn'
        BY <2>1, StaysKnown DEF SlotInv, RowsKeep
    <2>5. SlotInv("late")'
        BY <2>1, <2>2, <2>4 DEF SlotInv, Known
    <2> QED
        BY <2>2, <2>3, <2>5, EmptyCall DEF Slots, Answer
<1> QED
    BY <1>1, <1>2

LEMMA GiveUpKeeps ==
    ASSUME Inv, GiveUp
    PROVE  Inv'
<1>1. /\ UNCHANGED <<now, server>> /\ UNCHANGED <<situation, docs, acts>> /\ disk' = disk /\ faults' = faults + 1
      /\ agent.at \in {"beat", "renew"}
    BY DEF GiveUp, Outside, Fail
<1>2. RowsInv' /\ RowsKeep /\ WorldInv'
    BY <1>1, AgentActs
<1>3. /\ calls' \in [Slots -> Call] /\ \A s \in Slots : SlotInv(s)'
      /\ Answer'.at = "none"
    <2>1. PICK left \in {NoCall} \cup IF Answer.at = "answered" THEN {} ELSE {Answer} :
             calls' = [calls EXCEPT !["awaited"] = NoCall, !["late"] = left]
        BY DEF GiveUp
    <2>2. left = NoCall \/ (left = Answer /\ Answer.at # "answered")
        OBVIOUS
    <2> QED
        BY <1>2, <2>1, <2>2, LeftCalls
<1>4. PICK conn \in {agent.conn, None} : agent' = [agent EXCEPT !.at = "idle", !.conn = conn]
    BY DEF GiveUp
<1>5. /\ agent' \in Agent /\ agent'.at = "idle" /\ agent'.conn \in {agent.conn, None}
      /\ agent'.fresh = agent.fresh
    BY <1>4, AgentHas DEF Agent
<1>6. FilesSurvive'
    BY <1>1, <1>5, FilesStay
<1>7. AgentWaits'
    BY <1>3, <1>5 DEF AgentWaits
<1>8. Known(agent'.conn)
    BY <1>5, AgentHas, Identifiers DEF Known
<1> QED
    BY <1>1, <1>2, <1>3, <1>5, <1>6, <1>7, <1>8, AgentHas, AgentMoves

\* A file that is lost leaves the one that the last renewal kept.
LEMMA CrashKeeps ==
    ASSUME Inv, Crash
    PROVE  Inv'
<1>1. /\ UNCHANGED <<now, server>> /\ UNCHANGED <<situation, docs, acts>> /\ faults' = faults + 1
    BY DEF Crash, Outside, Fail
<1>2. RowsInv' /\ RowsKeep /\ WorldInv'
    BY <1>1, AgentActs
<1>3. /\ calls' \in [Slots -> Call] /\ \A s \in Slots : SlotInv(s)'
      /\ Answer'.at = "none"
    <2> DEFINE left == IF Answer.at = "answered" THEN NoCall ELSE Answer
    <2>1. calls' = [calls EXCEPT !["awaited"] = NoCall, !["late"] = left]
        BY DEF Crash
    <2>2. left = NoCall \/ (left = Answer /\ Answer.at # "answered")
        OBVIOUS
    <2> HIDE DEF left
    <2> QED
        BY <1>2, <2>1, <2>2, LeftCalls
<1>4. /\ agent' \in Agent /\ agent'.at = "down" /\ agent'.conn = None /\ agent'.fresh = None
    BY AgentHas DEF Crash, Agent
<1>5. \/ disk' = disk
      \/ /\ "corrupt" \in situation.faults /\ disk.current > 0
         /\ disk' = [disk EXCEPT !.current = Corrupt]
    BY DEF Crash, Fail
<1>6. /\ disk' \in [current : Pair, previous : Pair]
      /\ disk'.previous = disk.previous
      /\ \/ disk'.current = disk.current
         \/ disk'.current = Corrupt /\ "corrupt" \in situation.faults /\ disk.current > 0
    BY <1>5, AgentHas DEF Pair
<1>7. FilesSurvive'
    <2>1. faults \in Nat /\ FilesSurvive
        BY AgentHas
    <2>2. "corrupt" \notin situation'.faults => disk'.current \in CertIDs
        BY <1>1, <1>6, <2>1 DEF FilesSurvive
    <2>3. faults' = 1 => disk'.current \in CertIDs \/ disk'.previous \in CertIDs
        BY <1>1, <1>6, <2>1 DEF FilesSurvive
    <2>4. faults' # 0
        BY <1>1, <2>1
    <2> QED
        BY <2>2, <2>3, <2>4 DEF FilesSurvive
<1>8. AgentWaits'
    BY <1>3, <1>4 DEF AgentWaits
<1>9. /\ Known(disk'.current) /\ Known(disk'.previous)
      /\ Known(agent'.conn) /\ Known(agent'.fresh)
    BY <1>4, <1>6, AgentHas, Identifiers DEF Known
<1> QED
    BY <1>1, <1>2, <1>3, <1>4, <1>6, <1>7, <1>8, <1>9, AgentMoves

-----------------------------------------------------------------------------
(* The theorems. *)

\* A host just enrolled has the certificate it enrolled with, on both sides.
LEMMA InitInv == Init => Inv
<1> SUFFICES ASSUME Init PROVE Inv
    OBVIOUS
<1>1. now = 0 /\ situation \in Situations /\ acts = 0 /\ faults = 0
    BY DEF Init
<1>2. \A c \in CertIDs : certs[c] = IF c = 0 THEN Issued ELSE NoCert
    BY DEF Init
<1>3. /\ Issued \in Certificate /\ NoCert \in Certificate
      /\ Issued.row = "live" /\ NoCert.row = "none"
    BY <1>1, Identifiers DEF Issued, NoCert, Certificate, Never
<1>4. certs \in [CertIDs -> Certificate]
    BY <1>3 DEF Init
<1>5. host \in Host /\ host.row = "live"
    <2>1. NoDigest \in Digest /\ Unreported \in Int
        BY EmptyCall, Identifiers DEF NoCall, Call, Docs, Unreported
    <2> DEFINE held == [d \in Docs |-> [doc |-> Unreported, digest |-> NoDigest]]
    <2>2. held \in [Docs -> [doc : Int, digest : Digest]]
        BY <2>1
    <2> HIDE DEF held
    <2> QED
        BY <2>2 DEF Init, Host, held
<1>6. IssuedInTurn
    BY <1>2, <1>3, Identifiers, ContactAssumption DEF IssuedInTurn
<1>7. CapHolds
    <2>1. {c \in CertIDs : Live(c)} \subseteq {0}
        BY <1>2, <1>3 DEF Live
    <2>2. IsFiniteSet({0}) /\ Cardinality({0}) = 1
        BY FS_Singleton
    <2>3. Cardinality({c \in CertIDs : Live(c)}) <= 1 /\ Cardinality({c \in CertIDs : Live(c)}) \in Nat
        BY <2>1, <2>2, FS_Subset, FiniteIDs
    <2>4. MaxLive \in Nat \ {0}
        BY ContactAssumption
    <2> QED
        BY <2>3, <2>4 DEF CapHolds, CountLiveCertificates
<1>8. RowsInv
    <2>1. suspended \in BOOLEAN
        BY DEF Init
    <2>2. now \in 0 .. MaxTime
        BY <1>1, Identifiers
    <2> QED
        BY <1>4, <1>5, <1>6, <1>7, <2>1, <2>2 DEF RowsInv
<1>9. WorldInv
    <2>1. situation.changes \in Nat
        BY <1>1, ContactAssumption
    <2> QED
        BY <1>1, <2>1 DEF WorldInv, Init
<1>10. /\ calls \in [Slots -> Call]
       /\ \A s \in Slots : calls[s] = NoCall
    BY EmptyCall DEF Init
<1>11. \A s \in Slots : SlotInv(s)
    BY <1>10, EmptyCall, Identifiers DEF SlotInv, Known
<1>12. /\ agent \in Agent /\ agent.at = "down" /\ agent.conn = None /\ agent.fresh = None
       /\ disk \in [current : Pair, previous : Pair] /\ disk.current = 0 /\ disk.previous = None
    BY Identifiers DEF Init, Agent, Pair
<1>13. AgentKnows
    BY <1>1, <1>2, <1>3, <1>12, Identifiers DEF AgentKnows, Known, FilesSurvive
<1>14. AgentWaits
    BY <1>10, <1>12, EmptyCall DEF AgentWaits, Answer, Slots
<1> QED
    BY <1>8, <1>9, <1>10, <1>11, <1>13, <1>14 DEF Inv, FlightInv

LEMMA NextInv ==
    ASSUME Inv, [Next]_vars
    PROVE  Inv'
<1>1. CASE Next
    BY <1>1, ServeKeeps, OperateKeeps, BeatKeeps, HearBeatKeeps, MaybeRenewKeeps, HearRenewalKeeps,
       KeepPreviousKeeps, WriteCurrentKeeps, RunKeeps, DisconnectKeeps, GiveUpKeeps, CrashKeeps, TickKeeps
       DEF Next, Work
<1>2. CASE UNCHANGED vars
    <2>1. UNCHANGED <<situation, now, certs, host, suspended, calls, agent, disk, docs, acts, faults>>
        BY <1>2 DEF vars
    <2>2. RowsInv' /\ RowsKeep /\ WorldInv'
        BY <2>1, AgentActs DEF server, Inv, WorldInv
    <2>3. (\A s \in Slots : SlotInv(s)') /\ AgentKnows'
        BY <2>1, <2>2, SlotKeeps, AgentKeeps DEF Inv, FlightInv
    <2> QED
        BY <2>1, <2>2, <2>3 DEF Inv, FlightInv, AgentWaits, Answer
<1> QED
    BY <1>1, <1>2

LEMMA InvHolds == Spec => []Inv
BY InitInv, NextInv, PTL DEF Spec

\* However requests are lost, answered late or repeated, the agent crashes and the operator acts, the control plane
\* accepts no more than the cap of a host's certificates, the agent parks only on one that stays refused, and, where
\* files are lost to one failure only, it has a pair to present (RenewCertificate, requireAgent, WriteCredential).
THEOREM ContactInvHolds == Spec => []ContactInv
BY InvHolds, InvGives, PTL

\* A request that set out after the host was revoked or deleted is never let in, whatever certificate it is on
\* (requireAgent).
THEOREM WithdrawnIsRefusedHolds == Spec => []WithdrawnIsRefused
BY InvHolds, InvGives, PTL

=============================================================================
