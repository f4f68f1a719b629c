-------------------------- MODULE ContextRegistry --------------------------
(***************************************************************************)
(* The layered system prompt: agent/context-registry/registry.ts, with the *)
(* layers the agent loop and the history write (layers.ts, history.ts).    *)
(* Registries form chains: a registry renders its parent's layers under    *)
(* its own, and hears its parent's changes through a subscription it takes *)
(* out on the parent when it is attached.                                  *)
(*                                                                         *)
(* A layer's content is the sequence of the texts written to it, one       *)
(* letter each.                                                            *)
(***************************************************************************)
EXTENDS Integers, Sequences, SequencesExt, FiniteSets

CONSTANTS
  CrRegistries,   \* registries
  CrNames,        \* layer names
  CrTexts,        \* texts
  CrOps           \* bound: operations

ASSUME CrAssumption == IsFiniteSet(CrRegistries) /\ CrOps \in Nat

CrNoParent == "none"
CrNoLayer == [text |-> <<>>, priority |-> 0, merge |-> FALSE, version |-> 0]

VARIABLES
  crLayers,    \* the layers of each registry; version 0: no such layer
  crParent,    \* _parent
  crSubs,      \* wildcardSubs, the part children took out
  crUser,      \* handlers of the application: registries with one
  crHeard,     \* registries whose handler heard the last change
  crDue,       \* those whose chain of parents it happened on
  crDeaf,      \* registries whose parent was cleared after they attached
  crMissed,    \* registries that were below a deaf one at the last change
  crCount      \* operations so far

crVars == <<crLayers, crParent, crSubs, crUser, crHeard, crDue, crDeaf, crMissed, crCount>>

CrInit ==
  /\ crLayers = [r \in CrRegistries |-> [n \in CrNames |-> CrNoLayer]]
  /\ crParent = [r \in CrRegistries |-> CrNoParent]
  /\ crSubs = [r \in CrRegistries |-> {}]
  /\ crUser = {} /\ crDeaf = {} /\ crMissed = {} /\ crCount = 0
  /\ crHeard = {} /\ crDue = {}

(* The chain of r, itself first.                                           *)
CrChain(r) ==
  LET up[k \in 0 .. Cardinality(CrRegistries)] ==
        IF k = 0 THEN r ELSE IF up[k - 1] = CrNoParent THEN CrNoParent ELSE crParent[up[k - 1]]
      all == [k \in 1 .. Cardinality(CrRegistries) |-> up[k - 1]]
  IN  SelectSeq(all, LAMBDA p : p # CrNoParent)
CrIn(r, seq) == \E i \in DOMAIN seq : seq[i] = r

(* wouldCreateCycle walks up from the candidate.                           *)
CrWouldCreateCycle(r, p) == CrIn(r, CrChain(p))

CrLeaveNone(r, p) == [q \in CrRegistries |-> IF q = p THEN crSubs[q] \cup {r} ELSE crSubs[q]]

(* setParent: the subscription on the old parent is given back first.      *)
CrResubscribe(r, p) ==
  [q \in CrRegistries |-> IF q = p THEN crSubs[q] \cup {r} ELSE crSubs[q] \ {r}]

CrSetParent(r, p) ==
  /\ p # crParent[r] /\ ~CrWouldCreateCycle(r, p)
  /\ crParent' = [crParent EXCEPT ![r] = p]
  /\ crSubs' = CrResubscribe(r, p)
  /\ crDeaf' = crDeaf \ {r}
  /\ UNCHANGED <<crLayers, crUser, crHeard, crDue, crMissed>>

CrDetach(r) ==
  /\ crParent[r] # CrNoParent
  /\ crParent' = [crParent EXCEPT ![r] = CrNoParent]
  /\ crSubs' = CrResubscribe(r, CrNoParent)
  /\ crDeaf' = crDeaf \ {r}
  /\ UNCHANGED <<crLayers, crUser, crHeard, crDue, crMissed>>

(* fireEvent and fireBubbledEvent: who hears a change of r, down the       *)
(* subscriptions children took out.                                        *)
CrReached(r) ==
  LET down[k \in 0 .. Cardinality(CrRegistries)] ==
        IF k = 0 THEN {r} ELSE down[k - 1] \cup UNION {crSubs[q] : q \in down[k - 1]}
  IN  down[Cardinality(CrRegistries)]
CrFire(r) ==
  /\ crHeard' = CrReached(r) \cap crUser
  /\ crDue' = {q \in crUser : CrIn(r, CrChain(q))}
  /\ crMissed' = {q \in CrRegistries : \E d \in crDeaf : CrIn(d, CrChain(q))}

(* set and patch: what the caller does not say is kept from the layer.     *)
CrSetLayer(r, n, layer) ==
  /\ crLayers' = [crLayers EXCEPT ![r][n] = [layer EXCEPT !.version = crLayers[r][n].version + 1]]
  /\ CrFire(r)
  /\ UNCHANGED <<crParent, crSubs, crUser, crDeaf>>

CrSet(r, n, t, merge) ==
  CrSetLayer(r, n, [text |-> <<t>>, priority |-> crLayers[r][n].priority, merge |-> merge, version |-> 0])
CrPatch(r, n, t) ==
  CrSetLayer(r, n, [crLayers[r][n] EXCEPT !.text = <<t>>])

(* appendSystem: the text after the one that is there.                     *)
CrAppendSystem(r, n, t) ==
  CrSetLayer(r, n, [crLayers[r][n] EXCEPT !.text = Append(@, t), !.priority = 1])

(* remove, and the writers of layers.ts given no text.                     *)
CrRemove(r, n) ==
  /\ crLayers[r][n].version > 0
  /\ crLayers' = [crLayers EXCEPT ![r][n] = CrNoLayer]
  /\ CrFire(r)
  /\ UNCHANGED <<crParent, crSubs, crUser, crDeaf>>

(* onChange by the application, and its unsubscribe.                       *)
CrSubscribe(r) ==
  /\ r \notin crUser
  /\ crUser' = crUser \cup {r}
  /\ UNCHANGED <<crLayers, crParent, crSubs, crHeard, crDue, crDeaf, crMissed>>

CrUnsubscribe(r) ==
  /\ r \in crUser
  /\ crUser' = crUser \ {r}
  /\ UNCHANGED <<crLayers, crParent, crSubs, crHeard, crDue, crDeaf, crMissed>>

(* clear: the parent is left and every subscription is dropped, those the  *)
(* children took out included.                                             *)
CrClear(r) ==
  /\ crParent' = [crParent EXCEPT ![r] = CrNoParent]
  /\ crSubs' = [CrResubscribe(r, CrNoParent) EXCEPT ![r] = {}]
  /\ crUser' = crUser \ {r}
  /\ crDeaf' = (crDeaf \ {r}) \cup {c \in CrRegistries : crParent[c] = r}
  /\ UNCHANGED <<crLayers, crHeard, crDue, crMissed>>

(* fork, export and import: the layers are set again on a fresh registry,  *)
(* so versions start over.                                                 *)
CrFork(r, c) ==
  /\ c # r /\ crParent[c] = CrNoParent /\ crSubs[c] = {} /\ c \notin crUser
  /\ \A n \in CrNames : crLayers[c][n].version = 0
  /\ \E n \in CrNames : crLayers[r][n].version > 0
  /\ crLayers' = [crLayers EXCEPT ![c] =
       [n \in CrNames |-> IF crLayers[r][n].version = 0 THEN CrNoLayer
                          ELSE [crLayers[r][n] EXCEPT !.version = 1]]]
  /\ UNCHANGED <<crParent, crSubs, crUser, crHeard, crDue, crDeaf, crMissed>>

CrNext ==
  /\ crCount < CrOps /\ crCount' = crCount + 1
  /\ \E r \in CrRegistries :
       \/ CrSubscribe(r) \/ CrUnsubscribe(r) \/ CrClear(r) \/ CrDetach(r)
       \/ \E p \in CrRegistries : CrSetParent(r, p) \/ CrFork(r, p)
       \/ \E n \in CrNames :
            \/ CrRemove(r, n)
            \/ \E t \in CrTexts : CrPatch(r, n, t) \/ CrAppendSystem(r, n, t)
            \/ \E t \in CrTexts, merge \in BOOLEAN : CrSet(r, n, t, merge)

(* collectForRender: the parent's layers first; a layer of the same name   *)
(* replaces, or with mergeParent follows, what is there.                   *)
CrOverlay(acc, r) ==
  [n \in CrNames |->
     LET l == crLayers[r][n]
     IN  CASE l.version = 0 -> acc[n]
           [] l.version > 0 /\ l.merge /\ acc[n].there ->
                [there |-> TRUE, text |-> acc[n].text \o l.text, priority |-> l.priority]
           [] OTHER -> [there |-> TRUE, text |-> l.text, priority |-> l.priority]]
CrCollect(r) ==
  FoldLeft(CrOverlay, [n \in CrNames |-> [there |-> FALSE, text |-> <<>>, priority |-> 0]],
           Reverse(CrChain(r)))

-----------------------------------------------------------------------------
CrTypeOK ==
  /\ crParent \in [CrRegistries -> CrRegistries \cup {CrNoParent}]
  /\ crSubs \in [CrRegistries -> SUBSET CrRegistries]
  /\ crUser \subseteq CrRegistries /\ crDeaf \subseteq CrRegistries /\ crCount \in 0 .. CrOps
  /\ \A r \in CrRegistries, n \in CrNames : crLayers[r][n].version \in 0 .. CrOps

(* Parents never form a cycle, so that rendering and bubbling end.         *)
CrNoCycle == \A r \in CrRegistries : crParent[r] # CrNoParent => ~CrIn(r, CrChain(crParent[r]))

(* A registry listens to its parent and to nobody it has left: after any   *)
(* sequence of setParent, a handler hears each change of a registry on its *)
(* chain, and nothing else.  Only a parent's clear breaks that, for the     *)
(* children it had and what is below them.                                 *)
CrHeardOnce ==
  /\ \A c, p \in CrRegistries : c \in crSubs[p] <=> crParent[c] = p /\ c \notin crDeaf
  /\ crHeard \subseteq crDue /\ crDue \ crHeard \subseteq crMissed

(* What a name renders to: its nearest layer on the chain, and, as long as *)
(* a layer merges, what is above it.                                       *)
CrNearest(r, n) ==
  LET chain == CrChain(r)
      with == SelectSeq(chain, LAMBDA p : crLayers[p][n].version > 0)
      stop == CHOOSE k \in 1 .. Len(with) :
                /\ k = Len(with) \/ ~crLayers[with[k]][n].merge
                /\ \A j \in 1 .. k - 1 : crLayers[with[j]][n].merge
  IN  IF with = <<>> THEN <<>>
      ELSE FlattenSeq([i \in 1 .. stop |-> crLayers[with[stop - i + 1]][n].text])

(* Rendering says what the nearest layers say, and a layer of a registry   *)
(* outside the chain never shows.                                          *)
CrRendersNearest == \A r \in CrRegistries, n \in CrNames : CrCollect(r)[n].text = CrNearest(r, n)

CrFaithful == CrNoCycle /\ CrHeardOnce /\ CrRendersNearest
=============================================================================
