------------------------------ MODULE Producer ------------------------------
(***************************************************************************)
(* ProducerAppBase: an application that registers its prefix when the      *)
(* simulation starts and answers every Interest it is handed, a fixed time *)
(* later.  It keeps no state but its counters: what is recorded here are   *)
(* the messages on their way between it and the forwarder of its host.     *)
(***************************************************************************)
EXTENDS SimTime, NdnTypes, SequencesExt

CONSTANTS
    Producers,      \* the applications, as [node, face]
    PrefixOf,       \* parameter prefix of each
    Registering,    \* those whose prefix begins with "/"
    DataFreshness,  \* parameter dataFreshness
    ProducerStart,  \* parameter startTime
    ProducerStop,   \* parameter stopTime, negative for never
    AnswerDelay     \* 1.5 ms, in ticks

ASSUME ProducerAssumption ==
    /\ Producers \subseteq [node : Nodes, face : UpperFaces]
    /\ PrefixOf \in [Producers -> Names]
    /\ Registering \subseteq Producers
    /\ DataFreshness \in [Producers -> Nat]
    /\ ProducerStart \in [Producers -> Nat]
    /\ ProducerStop \in [Producers -> Int]
    /\ AnswerDelay \in Nat

VARIABLES
    registrations,  \* producers whose REGISTER_PREFIX message is under way
    handed,         \* Interests under way to a producer, in order
    answers         \* its Data under way to the forwarder, in order

producerVars == <<registrations, handed, answers>>

ProducerTypeOK ==
    /\ registrations \subseteq Registering
    /\ handed \in [Producers -> Seq(Interests)]
    /\ answers \in [Producers -> Seq([packet : DataPackets, at : Nat])]

\* initialize() sends the registration.
ProducerInit ==
    /\ registrations = Registering
    /\ handed = [p \in Producers |-> <<>>]
    /\ answers = [p \in Producers |-> <<>>]

\* Seeded fault: the default stopTime is taken for a date.
IsActiveNoDefault(p) == now >= ProducerStart[p] /\ now < ProducerStop[p]

IsActive(p) ==
    /\ now >= ProducerStart[p]
    /\ ProducerStop[p] < 0 \/ now < ProducerStop[p]

\* Seeded fault: the terminator of pPrefix is counted.
AnswerUnterminated(p, interest) ==
    [type |-> "data", name |-> interest.name, freshness |-> DataFreshness[p],
     prefixLength |-> Len(PrefixOf[p]) + 1]

\* The Data made for an Interest; its prefix length is that of the producer's
\* prefix, whether or not the name begins with it.
Answer(p, interest) ==
    [type |-> "data", name |-> interest.name, freshness |-> DataFreshness[p],
     prefixLength |-> Len(PrefixOf[p])]

\* processInterest() takes the next packet handed to the producer.
ProcessInterest(p) ==
    /\ handed[p] # <<>>
    /\ handed' = [handed EXCEPT ![p] = Tail(@)]
    /\ answers' = IF IsActive(p)
                  THEN [answers EXCEPT ![p] =
                           Append(@, [packet |-> Answer(p, Head(handed[p])),
                                      at |-> now + AnswerDelay])]
                  ELSE answers
    /\ UNCHANGED registrations

\* sendDelayed(): the Data arrives at the forwarder.
AnswerArrives(p) ==
    /\ answers[p] # <<>>
    /\ Due(Head(answers[p]).at)
    /\ answers' = [answers EXCEPT ![p] = Tail(@)]

\* The registration arrives there.
RegistrationArrives(p) ==
    /\ p \in registrations
    /\ registrations' = registrations \ {p}
=============================================================================
