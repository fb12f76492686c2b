-------------------------------- MODULE MCAgent --------------------------------
(* Agent on a small instance. *)
EXTENDS Agent

Payload(id, class, nonce, from, until, gone) ==
    [id |-> id, class |-> class, nonce |-> nonce,
     notBefore |-> from, notAfter |-> until, gone |-> gone]

\* The control plane picks the ids, and may give one to several jobs.
Reboot == Payload("j1", "destructive", "n1", 1, 2, TRUE)
Update == Payload("j2", "routine", "n2", 1, 2, FALSE)
Facts == Payload("j1", "read", "", 0, 0, FALSE)
Endless == Payload("j1", "destructive", "n4", 1, 0, FALSE)
Foreign == Payload("j1", "unsupported", "", 0, 0, FALSE)

EveryClass == {Reboot, Update, Facts, Endless, Foreign}

\* The operator signed every destructive payload; whether the key is trusted is
\* the administrator's business.
SignedOnes == {[key |-> k, payload |-> p] :
                  k \in SignerKeys, p \in {x \in Payloads : x.class = "destructive"}}

AllOrNothing == {{}, {"routine", "destructive"}}
AnyAnchor == SUBSET SignerKeys

Touched(p) ==
    \/ job = p
    \/ passed[p] > 0
    \/ p \in performed
    \/ \E k \in Slots : ops[k] # Free /\ ops[k].payload = p
    \/ spool[p.id] # "none"
    \/ answered[p.id] # "none"

\* A job of the control plane's own is run alone, under files that are left as
\* they are; the others share an id and are mixed in every way.  The pause file
\* comes and goes until a first result was delivered, and a job that needs no
\* signature is run, on a host whose other files permit any job and did so when
\* the cycle began; a job refused for having no window meets no pause.
Scope ==
    /\ Touched(Update) =>
          /\ ~\E p \in Payloads \ {Update} : Touched(p)
          /\ policy # {} /\ ~paused /\ signers = SignerKeys /\ snap.policy = policy
    /\ job = Endless => ~paused
    /\ paused => \A i \in Ids : answered[i] = "none"
    /\ paused \/ job \in {Facts, Foreign} =>
          /\ policy # {} /\ signers = SignerKeys
          /\ snap = NoSnap \/ (snap.policy # {} /\ snap.signers = SignerKeys)
=============================================================================
