----------------------------- MODULE Governance -----------------------------
(***************************************************************************)
(* What may be used in production: KnowledgeLifecycleRegistry              *)
(* (knowledge/lifecycle.py), FactorRegistry (factors/registry/             *)
(* lifecycle.py) and ModelRegistry (ml/registry/artifacts.py).  A hash is  *)
(* a SHA-256, some other text of 64 characters, or neither; names and      *)
(* reasons are present or absent.                                          *)
(***************************************************************************)
EXTENDS Integers, Sequences, FiniteSets

CONSTANTS
    Ideas, FailureCases,    \* knowledge candidates; those of kind FAILURE_CASE
    Factors,                \* factor versions
    Artifacts,              \* model artifacts to be registered
    Hashes,                 \* texts offered as evidence
    LongHashes, GoodHashes, \* those of 64 characters; the SHA-256 among them
    People,                 \* who may be named as approver
    NoHash, Nobody

GovernanceAssumption ==
    /\ FailureCases \subseteq Ideas /\ NoHash \notin Hashes
    /\ GoodHashes \subseteq LongHashes /\ LongHashes \subseteq Hashes
    /\ Nobody \notin People /\ Ideas \cap Factors = {}

VARIABLES
    ideas,      \* KnowledgeLifecycleRegistry._records
    factors,    \* FactorRegistry._records
    models,     \* ModelRegistry._artifacts
    log         \* history: what was done with each of them, in order

vars == <<ideas, factors, models, log>>

Unknown == [status |-> "UNKNOWN", hash |-> NoHash, reason |-> FALSE, by |-> Nobody]
NoFactor == [status |-> "UNKNOWN", hash |-> NoHash]

Init ==
    /\ ideas = [c \in Ideas |-> Unknown]
    /\ factors = [f \in Factors |-> NoFactor]
    /\ models = {}
    /\ log = [x \in Ideas \cup Factors |-> <<>>]

Note(x, to, confirmed) ==
    log' = [log EXCEPT ![x] = Append(@, [to |-> to, confirmed |-> confirmed])]

-----------------------------------------------------------------------------
(* Knowledge. *)

KnowledgeTransitions ==
    [DISCOVERED |-> {"REPRODUCED", "REJECTED"}, REPRODUCED |-> {"VALIDATED", "REJECTED"},
     VALIDATED |-> {"SHADOW", "REJECTED"}, SHADOW |-> {"APPROVED", "REJECTED"},
     APPROVED |-> {"PRODUCTION", "REJECTED"}, PRODUCTION |-> {"DEPRECATED"},
     REJECTED |-> {}, DEPRECATED |-> {}]

Promoted == {"REPRODUCED", "VALIDATED", "SHADOW", "APPROVED", "PRODUCTION"}

\* What a candidate may be: checked whenever one is made, also by replace().
SoundCandidate(c) ==
    /\ c.hash # NoHash => c.hash \in GoodHashes
    /\ c.status \notin {"DISCOVERED", "REJECTED"} => c.hash \in GoodHashes
    /\ c.status = "REJECTED" => c.reason
    /\ c.status \in {"APPROVED", "PRODUCTION"} => c.by # Nobody

\* A candidate may come with a reason and an approver already.
Discover(i, hash, reason, by) ==
    LET c == [status |-> "DISCOVERED", hash |-> hash, reason |-> reason, by |-> by] IN
    /\ ideas[i] = Unknown /\ SoundCandidate(c)
    /\ ideas' = [ideas EXCEPT ![i] = c]
    /\ Note(i, "DISCOVERED", FALSE)
    /\ UNCHANGED <<factors, models>>

Or(given, kept, none) == IF given = none THEN kept ELSE given

\* Mutant: the confirmation is not asked for.
UnconfirmedTransition(i, to, hash, reason, by, confirmed) ==
    LET c == [status |-> to, hash |-> Or(hash, ideas[i].hash, NoHash),
              reason |-> reason \/ ideas[i].reason, by |-> Or(by, ideas[i].by, Nobody)] IN
    /\ ideas[i] # Unknown /\ to \in KnowledgeTransitions[ideas[i].status]
    /\ SoundCandidate(c)
    /\ ideas' = [ideas EXCEPT ![i] = c]
    /\ Note(i, to, confirmed)
    /\ UNCHANGED <<factors, models>>

\* Evidence and approver are those given now, or else those on record.
Transition(i, to, hash, reason, by, confirmed) ==
    LET c == [status |-> to, hash |-> Or(hash, ideas[i].hash, NoHash),
              reason |-> reason \/ ideas[i].reason, by |-> Or(by, ideas[i].by, Nobody)] IN
    /\ ideas[i] # Unknown /\ to \in KnowledgeTransitions[ideas[i].status]
    /\ to \in Promoted => c.hash \in GoodHashes
    /\ to = "REJECTED" => reason
    /\ to = "APPROVED" => confirmed /\ c.by # Nobody
    /\ to = "PRODUCTION" => ideas[i].by # Nobody
    /\ SoundCandidate(c)
    /\ ideas' = [ideas EXCEPT ![i] = c]
    /\ Note(i, to, confirmed)
    /\ UNCHANGED <<factors, models>>

FailureLibrary ==
    {i \in Ideas : ideas[i] # Unknown /\ (ideas[i].status = "REJECTED" \/ i \in FailureCases)}

-----------------------------------------------------------------------------
(* Factors and models. *)

FactorTransitions ==
    [DRAFT |-> {"COMPUTED"}, COMPUTED |-> {"VALIDATED", "DEPRECATED"},
     VALIDATED |-> {"APPROVED", "DEPRECATED"}, APPROVED |-> {"PRODUCTION", "DEPRECATED"},
     PRODUCTION |-> {"DEPRECATED"}, DEPRECATED |-> {}]

\* register() takes a record as it comes, whatever status and hash it carries.
Register(f, status, hash) ==
    /\ factors[f] = NoFactor
    /\ factors' = [factors EXCEPT ![f] = [status |-> status, hash |-> hash]]
    /\ Note(f, status, FALSE)
    /\ UNCHANGED <<ideas, models>>

\* The length of the hash is all that is looked at, on these two moves only; any other
\* move takes whatever it is given over the evidence on record.
MoveFactor(f, to, hash) ==
    /\ factors[f] # NoFactor /\ to \in FactorTransitions[factors[f].status]
    /\ to \in {"VALIDATED", "APPROVED"} => hash \in LongHashes
    /\ factors' = [factors EXCEPT ![f] = [status |-> to,
                                          hash |-> Or(hash, factors[f].hash, NoHash)]]
    /\ Note(f, to, FALSE)
    /\ UNCHANGED <<ideas, models>>

Eligible == {f \in Factors : factors[f].status \in {"APPROVED", "PRODUCTION"}}

SoundArtifact(a) == a.features # {} /\ a.start <= a.end /\ a.checksum \in GoodHashes

RegisterModel(a) ==
    /\ SoundArtifact(a) /\ \A m \in models : m.run # a.run
    /\ models' = models \cup {a}
    /\ UNCHANGED <<ideas, factors, log>>

Next ==
    \/ \E hash \in Hashes \cup {NoHash} :
          \/ \E i \in Ideas, reason \in BOOLEAN, by \in People \cup {Nobody} :
                \/ Discover(i, hash, reason, by)
                \/ \E to \in DOMAIN KnowledgeTransitions, confirmed \in BOOLEAN :
                      Transition(i, to, hash, reason, by, confirmed)
          \/ \E f \in Factors, status \in DOMAIN FactorTransitions :
                \/ Register(f, status, hash)
                \/ MoveFactor(f, status, hash)
    \/ \E a \in Artifacts : RegisterModel(a)

Spec == Init /\ [][Next]_vars

-----------------------------------------------------------------------------

\* What knowledge is in production went through every stage in order, on evidence,
\* and a person confirmed its approval; what was rejected is in the failure library.
\* A factor that may be used was validated on evidence, unless its first record
\* already said so or more.
ProductionIsConfirmed ==
    /\ \A i \in Ideas : ideas[i].status = "PRODUCTION" =>
          /\ [n \in 1..Len(log[i]) |-> log[i][n].to] =
                <<"DISCOVERED", "REPRODUCED", "VALIDATED", "SHADOW", "APPROVED", "PRODUCTION">>
          /\ log[i][5].confirmed /\ ideas[i].hash \in GoodHashes
    /\ \A i \in Ideas : \A n \in 1..Len(log[i]) :
          log[i][n].to = "REJECTED" => i \in FailureLibrary
    /\ \A f \in Eligible :
          \/ log[f][1].to \in {"VALIDATED", "APPROVED", "PRODUCTION"}
          \/ factors[f].hash # NoHash /\ \E n \in 1..Len(log[f]) : log[f][n].to = "VALIDATED"
=============================================================================
