----------------------------- MODULE Authority -----------------------------
(***************************************************************************)
(* Who may sign for whom.                                                  *)
(*                                                                         *)
(* The store keeps an entry only for an owner who differs from the         *)
(* default, "the owner signs everything, others nothing".  An update makes *)
(* the default entry if there is none, changes one record of it, and takes *)
(* away what is a default again; undoing an update does the same the other *)
(* way round.  So the store after an undone update is the one before only  *)
(* if every step leaves a store in the one form this makes.                *)
(*                                                                         *)
(* A record is [full, kinds]: with full, all kinds of action but "kinds";  *)
(* without, only "kinds".                                                  *)
(***************************************************************************)
EXTENDS FiniteSets, Sequences, TLC

CONSTANTS
  Address,   \* accounts
  Kind       \* kinds of action; "AuthorizationUpdate" is one of them

ASSUME AuthorityAssumption == "AuthorizationUpdate" \in Kind

Full == [full |-> TRUE, kinds |-> {}]
Nothing == [full |-> FALSE, kinds |-> {}]
Default(owner, actor) == IF actor = owner THEN Full ELSE Nothing

\* A store: entries by owner, in each the records by actor.
IsAuthorityStore(store) ==
  \A owner \in DOMAIN store :
    /\ owner \in Address /\ DOMAIN store[owner] \subseteq Address
    /\ \A actor \in DOMAIN store[owner] :
         store[owner][actor] \in [full : BOOLEAN, kinds : SUBSET Kind]
Update == [status : {"store", "remove"}, owner : Address, actor : Address,
           kinds : SUBSET (Kind \ {"AuthorizationUpdate"})]

\* get_record throws for an entry that lacks its owner.
HasRecord(store, owner, actor) ==
  actor = owner /\ owner \in DOMAIN store => owner \in DOMAIN store[owner]
Record(store, owner, actor) ==
  IF owner \in DOMAIN store /\ actor \in DOMAIN store[owner]
  THEN store[owner][actor] ELSE Default(owner, actor)

\* check_authority
MaySign(store, owner, actor, kind) ==
  LET record == Record(store, owner, actor)
  IN  IF kind \in record.kinds THEN ~ record.full ELSE record.full

With(f, x, v) == [y \in DOMAIN f \union {x} |-> IF y = x THEN v ELSE f[y]]
Without(f, x) == [y \in DOMAIN f \ {x} |-> f[y]]
OwnerOnly(owner) == [a \in {owner} |-> Full]

\* smart_create_dummy_record
WithDummy(store, owner, actor) ==
  LET entry == IF owner \in DOMAIN store THEN store[owner] ELSE OwnerOnly(owner)
  IN  With(store, owner,
           IF actor \in DOMAIN entry THEN entry ELSE With(entry, actor, Default(owner, actor)))

\* Fault: the owner's record goes like the others.
CleanedOwnerToo(store, owner, actor) ==
  LET entry == IF store[owner][actor] = Nothing
               THEN Without(store[owner], actor) ELSE store[owner]
  IN  IF entry = OwnerOnly(owner) THEN Without(store, owner) ELSE With(store, owner, entry)

\* smart_cleanup_dummy_record
Cleaned(store, owner, actor) ==
  LET entry == IF actor # owner /\ store[owner][actor] = Nothing
               THEN Without(store[owner], actor) ELSE store[owner]
  IN  IF entry = OwnerOnly(owner) THEN Without(store, owner) ELSE With(store, owner, entry)

\* What an update asks of the record and makes of it; to award is to undo a removal.
Fits(record, status, kinds) ==
  IF kinds = {} THEN record.kinds = {} /\ record.full = (status = "remove")
  ELSE /\ ~ record.full
       /\ IF status = "store" THEN kinds \intersect record.kinds = {}
                              ELSE kinds \subseteq record.kinds
Awarded(record, kinds) ==
  IF kinds = {} THEN Full ELSE [record EXCEPT !.kinds = @ \union kinds]
Rejected(record, kinds) ==
  IF kinds = {} THEN Nothing ELSE [record EXCEPT !.kinds = @ \ kinds]

ChangeRecord(store, update, status) ==
  LET dummy   == WithDummy(store, update.owner, update.actor)
      record  == Record(dummy, update.owner, update.actor)
      changed == IF status = "store" THEN Awarded(record, update.kinds)
                 ELSE Rejected(record, update.kinds)
  IN  Cleaned([dummy EXCEPT ![update.owner][update.actor] = changed],
              update.owner, update.actor)

Opposite(status) == IF status = "store" THEN "remove" ELSE "store"

\* action_validate: nobody changes their own record.
UpdateIsValid(signers, update) ==
  /\ Len(signers) = 1 /\ signers[1] # update.actor
  /\ "AuthorizationUpdate" \notin update.kinds

\* action_can_apply, for a signer who may sign for the owner
UpdateFits(store, update) ==
  Fits(Record(store, update.owner, update.actor), update.status, update.kinds)
Updated(store, update) == ChangeRecord(store, update, update.status)

\* action_revert and what it throws for
CanUndo(store, update) ==
  Fits(Record(store, update.owner, update.actor), Opposite(update.status), update.kinds)
Undone(store, update) == ChangeRecord(store, update, Opposite(update.status))
=============================================================================
