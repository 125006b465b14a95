-------------------------- MODULE IdentityAllocator --------------------------
(***************************************************************************)
(* policy.IdentityAllocator (pkg/policy/identity.go) as operators on one   *)
(* record, each method being atomic under the allocator's mutex.  A label  *)
(* set is a member of Labels: two label sets with the same sha256 of their *)
(* sorted "k=v;" list are one member.                                      *)
(*                                                                         *)
(*   live      the keys of the map identities                              *)
(*   refCount  Identity.RefCount, kept after the entry is deleted: callers *)
(*             hold pointers to the struct and read it without the mutex   *)
(*   labels    Identity.LabelHash of a live identity                       *)
(*   hashToID  label hash to ID, or NoID                                   *)
(*   nextID    uint32, wraps at IDSpace                                    *)
(***************************************************************************)
EXTENDS Integers

CONSTANTS Labels,      \* label sets, up to their hash
          IDSpace,     \* number of values of nextID: 2^32 in the code
          NoLabels     \* labels[i] of an ID never given out

ASSUME IDSpaceAssumption == IDSpace \in Nat \ {0, 1}
ASSUME NoLabelsAssumption == NoLabels \notin Labels

NoID == -1
IDs == 0 .. (IDSpace - 1)

NewIdentityAllocator ==
  [live     |-> {},
   refCount |-> [i \in IDs |-> 0],
   labels   |-> [i \in IDs |-> NoLabels],
   hashToID |-> [l \in Labels |-> NoID],
   nextID   |-> 1]

IdentityType ==
  [live     : SUBSET IDs,
   refCount : [IDs -> Nat],
   labels   : [IDs -> Labels \cup {NoLabels}],
   hashToID : [Labels -> IDs \cup {NoID}],
   nextID   : IDs]

\* The ID AllocateIdentity returns.
AllocatedID(a, l) == IF a.hashToID[l] # NoID THEN a.hashToID[l] ELSE a.nextID

\* Bug: a reused identity is not counted.
AfterAllocateIdentity_NoCount(a, l) ==
  IF a.hashToID[l] # NoID THEN a
  ELSE LET i == a.nextID IN
       [live     |-> a.live \cup {i},
        refCount |-> [a.refCount EXCEPT ![i] = 1],
        labels   |-> [a.labels EXCEPT ![i] = l],
        hashToID |-> [a.hashToID EXCEPT ![l] = i],
        nextID   |-> (a.nextID + 1) % IDSpace]

AfterAllocateIdentity(a, l) ==
  IF a.hashToID[l] # NoID
  THEN [a EXCEPT !.refCount[a.hashToID[l]] = @ + 1]
  ELSE LET i == a.nextID IN
       [live     |-> a.live \cup {i},
        refCount |-> [a.refCount EXCEPT ![i] = 1],
        labels   |-> [a.labels EXCEPT ![i] = l],
        hashToID |-> [a.hashToID EXCEPT ![l] = i],
        nextID   |-> (a.nextID + 1) % IDSpace]

\* Bugs: the freed ID is used next; collected one reference early.
AfterReleaseIdentity_ReusesID(a, i) ==
  IF i \notin a.live THEN a
  ELSE LET n == a.refCount[i] - 1 IN
       [a EXCEPT !.refCount[i] = n,
                 !.live = IF n <= 0 THEN @ \ {i} ELSE @,
                 !.hashToID[a.labels[i]] = IF n <= 0 THEN NoID ELSE @,
                 !.nextID = IF n <= 0 THEN i ELSE @]
AfterReleaseIdentity_Early(a, i) ==
  IF i \notin a.live THEN a
  ELSE LET n == a.refCount[i] - 1 IN
       [a EXCEPT !.refCount[i] = n,
                 !.live = IF n <= 1 THEN @ \ {i} ELSE @,
                 !.hashToID[a.labels[i]] = IF n <= 1 THEN NoID ELSE @]

\* ReleaseIdentity: unknown IDs are an error the callers ignore.
AfterReleaseIdentity(a, i) ==
  IF i \notin a.live THEN a
  ELSE LET n == a.refCount[i] - 1 IN
       [a EXCEPT !.refCount[i] = n,
                 !.live = IF n <= 0 THEN @ \ {i} ELSE @,
                 !.hashToID[a.labels[i]] = IF n <= 0 THEN NoID ELSE @]

\* GetIdentityByLabels: the ID of a label set, if it has one.
IdentityByLabels(a, l) == a.hashToID[l]
=============================================================================
