------------------------------ MODULE Dictionary ------------------------------
(* Dictionaries and their items.  An item names its dictionary by the code,    *)
(* which a rename changes in both tables; clients that have cached a code's    *)
(* items are told of a change after it is committed.                           *)
(* Values, labels and names are left out: the checks on them, and the unique   *)
(* index on code and value, can only refuse a request (DictionaryFails).       *)
EXTENDS Requests, Sequences, SequencesExt

CONSTANTS Dict, Code, Item      \* ids, positive numbers, and dict_code

VARIABLES
  dicts,       \* sys_dict: the code of each live row
  items,       \* sys_dict_item: the dict_code of each row
  dirty,       \* history: codes changed since they were last announced
  unsaid       \* history: codes whose change a request failed to announce

dictionaryVars == <<dicts, items, dirty, unsaid>>

(* An id no row has had yet, and one whose row is gone.                        *)
Never == "never"
Gone == "gone"
ASSUME IdsAreNotZero == 0 \notin Dict \cup Item
ASSUME CodesAreOther == {Never, Gone} \cap Code = {}

Live == {id \in Dict : dicts[id] \in Code}
Codes == {dicts[id] : id \in Live}
HasItems(code) == \E item \in Item : items[item] = code

DictionaryInit(some, theirs) ==
  /\ dicts = [id \in Dict |-> IF id \in DOMAIN some THEN some[id] ELSE Never]
  /\ items = [id \in Item |-> IF id \in DOMAIN theirs THEN theirs[id] ELSE Never]
  /\ dirty = {} /\ unsaid = {}

Entry(op, step, id, code) ==
  [op |-> op, step |-> step, id |-> id, code |-> code, original |-> code, current |-> code]

(* Requests that have read something about these codes.                        *)
Concerned(codes) ==
  {q \in Client : request[q].op \in {"save dictionary", "delete dictionary", "save item"}
                    /\ codes \cap {request[q].code, request[q].original, request[q].current} # {}}

(* A commit has changed these codes; the request goes on to announce some.     *)
Changed(codes) == dirty' = dirty \cup codes /\ UNCHANGED unsaid
Announces(p, codes) ==
  /\ request' = [request EXCEPT ![p] = [op |-> "announce", step |-> "next", codes |-> codes]]
  /\ UNCHANGED left

(* Save: CodeExists, and for an old dictionary Get, for its original code.     *)
SaveDictionary(p, id, code) ==
  /\ id # 0 => id \in Live
  /\ \A other \in Live \ {id} : dicts[other] # code
  /\ Begins(p, IF id = 0 THEN Entry("save dictionary", "write", id, code)
               ELSE [Entry("save dictionary", "current", id, code) EXCEPT !.original = dicts[id]])
  /\ UNCHANGED dictionaryVars

CreateDictionary(p, id) ==
  LET form == request[p]
  IN  /\ At(p, "save dictionary", "write") /\ form.id = 0
      /\ dicts[id] = Never /\ form.code \notin Codes
      /\ dicts' = [dicts EXCEPT ![id] = form.code]
      /\ Changed({form.code})
      /\ Announces(p, <<form.code>>)
      /\ UNCHANGED <<items, stale, raced>>

(* Update: its transaction reads the row again, without a lock, ...            *)
ReadCurrent(p) ==
  /\ At(p, "save dictionary", "current") /\ request[p].id \in Live
  /\ Reads(p, [To(p, "write") EXCEPT !.current = dicts[request[p].id]])
  /\ UNCHANGED dictionaryVars

(* Fault: a rename leaves the items behind.                                    *)
MovesNothing(from, to) == items

(* ... and moves the items that have the code it has read.                     *)
Moves(from, to) == [item \in Item |-> IF items[item] = from THEN to ELSE items[item]]
(* Fault: only the new code is announced.                                      *)
RenameAnnouncedOnce(form) == <<form.code>>
RenameAnnounced(form) ==
  IF form.original # form.code THEN <<form.code, form.original>> ELSE <<form.code>>

RenameDictionary(p) ==
  LET form == request[p]
      old == dicts[form.id]
  IN  /\ At(p, "save dictionary", "write") /\ form.id \in Live
      /\ \A other \in Live \ {form.id} : dicts[other] # form.code
      /\ dicts' = [dicts EXCEPT ![form.id] = form.code]
      /\ items' = Moves(form.current, form.code)
      /\ Changed({old, form.code})
      /\ Announces(p, RenameAnnounced(form))
      /\ Relies(p) /\ Outdates(p, Concerned({old, form.code}))

(* Delete: Get for the code, ItemCount of that code, and then the row.         *)
DeleteDictionary(p, id) ==
  /\ id \in Live
  /\ Begins(p, Entry("delete dictionary", "count", id, dicts[id]))
  /\ UNCHANGED dictionaryVars

CountItems(p) ==
  /\ At(p, "delete dictionary", "count")
  /\ ~HasItems(request[p].code)
  /\ Reads(p, To(p, "delete"))
  /\ UNCHANGED dictionaryVars

RemoveDictionary(p) ==
  LET form == request[p]
  IN  /\ At(p, "delete dictionary", "delete") /\ form.id \in Live
      /\ dicts' = [dicts EXCEPT ![form.id] = Gone]
      /\ Changed({dicts[form.id]})
      /\ Announces(p, <<form.code>>)
      /\ Relies(p) /\ Outdates(p, Concerned({dicts[form.id]}))
      /\ UNCHANGED items

(* SaveItem: the dictionary is looked for, and then the item inserted, or      *)
(* updated if it still has that code.                                          *)
SaveItem(p, item, code) ==
  /\ code \in Codes
  /\ Begins(p, Entry("save item", "write", item, code))
  /\ UNCHANGED dictionaryVars

CreateItem(p, item) ==
  LET form == request[p]
  IN  /\ At(p, "save item", "write") /\ form.id = 0
      /\ items[item] = Never
      /\ items' = [items EXCEPT ![item] = form.code]
      /\ Changed({form.code})
      /\ Announces(p, <<form.code>>)
      /\ Relies(p) /\ Outdates(p, Concerned({form.code}))
      /\ UNCHANGED dicts

UpdateItem(p) ==
  LET form == request[p]
  IN  /\ At(p, "save item", "write") /\ form.id # 0
      /\ items[form.id] = form.code
      /\ Changed({form.code})
      /\ Announces(p, <<form.code>>)
      /\ Forgets(p)
      /\ UNCHANGED <<dicts, items>>

DeleteItems(p, ids, code) ==
  /\ ~Active(p) /\ left > 0 /\ left' = left - 1
  /\ ids # {} /\ \A item \in ids : items[item] = code
  /\ items' = [item \in Item |-> IF item \in ids THEN Gone ELSE items[item]]
  /\ Changed({code})
  /\ request' = [request EXCEPT ![p] = [op |-> "announce", step |-> "next", codes |-> <<code>>]]
  /\ UNCHANGED <<stale, raced, dicts>>

PublishChanged(p) ==
  LET codes == request[p].codes
  IN  /\ At(p, "announce", "next")
      /\ dirty' = dirty \ {codes[1]}
      /\ IF Len(codes) = 1 THEN Ends(p) /\ Forgets(p)
         ELSE Reads(p, [request[p] EXCEPT !.codes = Tail(@)])
      /\ UNCHANGED <<dicts, items, unsaid>>

(* A request is refused, or its process dies before it has told all.           *)
DictionaryFails(p) ==
  /\ Active(p)
  /\ unsaid' = unsaid \cup (IF request[p].op = "announce" THEN ToSet(request[p].codes) ELSE {})
  /\ Ends(p) /\ Forgets(p)
  /\ UNCHANGED <<dicts, items, dirty>>

DictionaryNext ==
  \E p \in Client :
    \/ \E id \in Dict : CreateDictionary(p, id) \/ DeleteDictionary(p, id)
    \/ \E id \in Dict \cup {0}, code \in Code : SaveDictionary(p, id, code)
    \/ ReadCurrent(p) \/ RenameDictionary(p) \/ CountItems(p) \/ RemoveDictionary(p)
    \/ \E item \in Item \cup {0}, code \in Code : SaveItem(p, item, code)
    \/ \E item \in Item : CreateItem(p, item)
    \/ UpdateItem(p) \/ PublishChanged(p) \/ DictionaryFails(p)
    \/ \E ids \in SUBSET Item, code \in Code : DeleteItems(p, ids, code)

-----------------------------------------------------------------------------
(* Every item belongs to a live dictionary, through renames and deletions,     *)
(* unless a request wrote what another commit had made its reads wrong for.    *)
ItemsHaveDictionary ==
  raced \/ \A item \in Item : items[item] \in Code => items[item] \in Codes

(* Clients drop every code whose dictionary or items have changed - a rename   *)
(* changes two - once the requests that changed them are through: what is not  *)
(* announced yet will be, or its announcer has failed, or a rename did not     *)
(* know the code it changed.                                                   *)
ChangesAreAnnounced ==
  raced \/ \A code \in dirty \ unsaid :
             \E p \in Client : request[p].op = "announce" /\ code \in ToSet(request[p].codes)

(* Rows are of their kinds.                                                    *)
DictionaryTypeOK ==
  /\ dicts \in [Dict -> Code \cup {Never, Gone}]
  /\ items \in [Item -> Code \cup {Never, Gone}]
  /\ dirty \subseteq Code /\ unsaid \subseteq Code

(* Why items keep their dictionary: codes are unique, and what a request that  *)
(* is not stale has read still is so when it writes.                           *)
CodesAreUnique == \A id, other \in Live : dicts[id] = dicts[other] => id = other
ReadsHold(p) ==
  LET form == request[p]
  IN  /\ form.op = "save dictionary" /\ form.id # 0 => dicts[form.id] = form.original
      /\ At(p, "save dictionary", "write") /\ form.id # 0 => dicts[form.id] = form.current
      /\ form.op = "delete dictionary" => dicts[form.id] = form.code
      /\ At(p, "delete dictionary", "delete") => ~HasItems(form.code)
      /\ form.op = "save item" => form.code \in Codes
EntryIsTyped(form) ==
  \/ form = Idle
  \/ /\ DOMAIN form = DOMAIN Entry("none", "none", 0, 0)
     /\ form.op \in {"save dictionary", "delete dictionary", "save item"}
     /\ form.op = "save dictionary" => form.id \in Dict \cup {0}
     /\ form.op = "delete dictionary" => form.id \in Dict
     /\ form.code \in Code /\ form.original \in Code /\ form.current \in Code
  \/ /\ DOMAIN form = {"op", "step", "codes"} /\ form.op = "announce"
     /\ form.codes \in Seq(Code) /\ form.codes # <<>>
DictionaryIInv ==
  /\ DictionaryTypeOK /\ IsPerClient(request)
  /\ \A p \in Client : EntryIsTyped(request[p])
  /\ raced \/ (CodesAreUnique /\ \A p \in Client \ stale : ReadsHold(p))
  /\ ItemsHaveDictionary /\ ChangesAreAnnounced

(* The dictionaries of any tables in which codes are unique and every item has *)
(* its dictionary.                                                             *)
DictionaryStart ==
  /\ \E some, theirs, bound : DictionaryInit(some, theirs) /\ RequestsInit(bound)
  /\ DictionaryTypeOK /\ CodesAreUnique /\ ItemsHaveDictionary
DictionarySpec == DictionaryStart /\ [][DictionaryNext]_<<dictionaryVars, requestVars>>
=============================================================================
