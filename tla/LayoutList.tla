----------------------------- MODULE LayoutList -----------------------------
(***************************************************************************)
(* What the commands of the layout clients do to rvgpu_layout_list and     *)
(* rvgpu_safety_areas, and what a frame makes of the safety areas.         *)
(*                                                                         *)
(* The layout thread makes each edit of the list under layout_list_mutex,  *)
(* so an edit is one step; the safety areas of initial_layout follow one by *)
(* one under another mutex. The main thread walks and shortens them without *)
(* it: it may find more of them at any index, and json_array_remove may     *)
(* meet a json_array_append_new, both moving the array's count (a data      *)
(* race; left out is that the append may also move the whole array). An     *)
(* area that has been drawn into the stencil buffer stays there; the buffer *)
(* is cleared once, at the start. A client gives every surface of a command *)
(* an id of its own and all its properties, of which "visible" stands for   *)
(* those that may be modified. The handshake of -L is in LayoutSync.        *)
(***************************************************************************)
EXTENDS Integers, Sequences, SequencesExt, FiniteSets, FiniteSetsExt

CONSTANTS
  Ids,         \* layout ids
  Surfaces,    \* rvgpu_surface_ids
  Areas,       \* safety areas a client may name
  Valid,       \* those within the display
  MaxEdits, MaxLength, MaxAreas  \* bounds: commands, surfaces of one, areas of one

VARIABLES
  list,    \* rvgpu_layout_list
  areas,   \* rvgpu_safety_areas
  adding,  \* safety areas of the last initial_layout, still to be appended
  pc, i,   \* the main thread: "idle", at index i "check" or "remove", or "mask"
  met,     \* areas appended since the removal at index i began
  stencil, \* areas drawn into the stencil buffer
  edit,    \* the last command
  edits,   \* commands so far
  given,   \* valid areas the clients have named
  raced    \* those appended while a removal was going on

vars == <<list, areas, adding, pc, i, met, stencil, edit, edits, given, raced>>

Entry == [id : Ids, surface : Surfaces, visible : BOOLEAN]
Requests == {s \in UNION {[1 .. n -> Entry] : n \in 1 .. MaxLength} :
               \A j, k \in DOMAIN s : s[j].id = s[k].id => j = k}
AreaLists == UNION {[1 .. n -> Areas] : n \in 0 .. MaxAreas}
NoId == -1

TypeOK ==
  /\ Range(list) \subseteq Entry /\ Range(areas \o met \o adding) \subseteq Areas
  /\ pc \in {"idle", "check", "remove", "mask"} /\ i \in 0 .. Len(areas)
  /\ met # <<>> \/ pc = "remove" => i < Len(areas)
  /\ stencil \subseteq Areas /\ edits \in 0 .. MaxEdits
  /\ raced \subseteq given /\ given \subseteq Valid

Init ==
  /\ list = <<>> /\ areas = <<>> /\ adding = <<>> /\ pc = "idle" /\ i = 0 /\ met = <<>> /\ stencil = {}
  /\ edit = [command |-> "none"] /\ edits = 0 /\ given = {} /\ raced = {}

-----------------------------------------------------------------------------
(***************************************************************************)
(* The layout thread.                                                      *)
(***************************************************************************)
IdsOf(s) == {s[j].id : j \in DOMAIN s}
Without(s, ids) == SelectSeq(s, LAMBDA e : e.id \notin ids)

\* Mutant: what was at the index is overwritten.
InsertAll_Over(s, new, at) == SubSeq(s, 1, at) \o Reverse(new) \o SubSeq(s, at + 2, Len(s))

\* Each is inserted at the same index: the last of them comes first.
InsertAll(s, new, at) == SubSeq(s, 1, at) \o Reverse(new) \o SubSeq(s, at + 1, Len(s))

\* Mutant: one place too far.
Target_Next(s, order, ref) ==
  LET at == {j \in DOMAIN s : s[j].id = ref}
  IN  CASE order = "prepend"                  -> 0
        [] order = "before" /\ at # {}        -> Min(at)
        [] order = "after" /\ at # {}         -> Min(at)
        [] OTHER                              -> Len(s)

\* The target index; unknown references and orders mean the end.
Target(s, order, ref) ==
  LET at == {j \in DOMAIN s : s[j].id = ref}
  IN  CASE order = "prepend"                  -> 0
        [] order = "before" /\ at # {}        -> Min(at) - 1
        [] order = "after" /\ at # {}         -> Min(at)
        [] OTHER                              -> Len(s)

Edited(e) ==
  /\ adding = <<>> /\ edits < MaxEdits /\ edits' = edits + 1 /\ edit' = e
  /\ UNCHANGED <<areas, given, raced, pc, i, met, stencil>>

InitialLayout(new, more) ==
  /\ Edited([command |-> "initial_layout"])
  /\ list' = new
  /\ adding' = more

\* The areas of earlier commands stay. What is appended while the main thread
\* is in json_array_remove gets its place, or none, when that ends.
AppendArea ==
  /\ adding # <<>> /\ adding' = Tail(adding)
  /\ IF pc = "remove"
     THEN met' = Append(met, Head(adding)) /\ UNCHANGED areas
     ELSE areas' = Append(areas, Head(adding)) /\ UNCHANGED met
  /\ given' = given \cup ({Head(adding)} \cap Valid)
  /\ raced' = raced \cup (Range(met') \cap Valid)
  /\ UNCHANGED <<list, pc, i, stencil, edit, edits>>

Modified(e, new) == [e EXCEPT !.visible = new.visible]

ModifySurface(new) ==
  /\ Edited([command |-> "modify_surface"])
  /\ list' = LET at(j) == {k \in DOMAIN list : list[k].id = new[j].id /\ list[k].surface = new[j].surface}
                 hit(k) == {j \in DOMAIN new : at(j) # {} /\ Min(at(j)) = k}
             IN  [k \in DOMAIN list |->
                    IF hit(k) = {} THEN list[k] ELSE Modified(list[k], new[Max(hit(k))])]
  /\ UNCHANGED adding

\* Mutant: the index is looked up before the old entries are removed.
AddSurface_Early(new, order, ref) ==
  LET s == SelectSeq(new, LAMBDA e : e.id # ref)
      rest == Without(list, IdsOf(s))
  IN  /\ Edited([command |-> "add_surface", ids |-> IdsOf(s), order |-> order, ref |-> ref])
      /\ list' = InsertAll(rest, s, Min({Target(list, order, ref), Len(rest)}))
      /\ UNCHANGED adding

\* Mutant: the old entries stay.
AddSurface_Twice(new, order, ref) ==
  LET s == SelectSeq(new, LAMBDA e : e.id # ref)
  IN  /\ Edited([command |-> "add_surface", ids |-> IdsOf(s), order |-> order, ref |-> ref])
      /\ list' = InsertAll(list, s, Target(list, order, ref))
      /\ UNCHANGED adding

\* A surface that is its own reference is dropped; the others are taken from
\* the list before the index is looked up.
AddSurface(new, order, ref) ==
  LET s == SelectSeq(new, LAMBDA e : e.id # ref)
      rest == Without(list, IdsOf(s))
  IN  /\ Edited([command |-> "add_surface", ids |-> IdsOf(s), order |-> order, ref |-> ref])
      /\ list' = InsertAll(rest, s, Target(rest, order, ref))
      /\ UNCHANGED adding

RemoveSurface(ids) ==
  /\ Edited([command |-> "remove_surface"])
  /\ list' = Without(list, ids)
  /\ UNCHANGED adding

(***************************************************************************)
(* The main thread.                                                        *)
(***************************************************************************)
StartFrame ==
  /\ pc = "idle" /\ areas # <<>>
  /\ pc' = "check" /\ i' = 0
  /\ UNCHANGED <<list, areas, adding, met, stencil, edit, edits, given, raced>>

CheckArea ==
  /\ pc = "check" /\ i < Len(areas)
  /\ IF areas[i + 1] \in Valid THEN i' = i + 1 /\ UNCHANGED pc
                              ELSE pc' = "remove" /\ UNCHANGED i
  /\ UNCHANGED <<list, areas, adding, met, stencil, edit, edits, given, raced>>

\* Mutant: the area after the invalid one is removed.
RemoveArea_Off ==
  /\ pc = "remove" /\ pc' = "check"
  /\ areas' = (IF i + 1 = Len(areas) THEN areas ELSE RemoveAt(areas, i + 2)) \o met
  /\ i' = Min({i + 1, Len(areas')}) /\ met' = <<>>
  /\ UNCHANGED <<list, adding, stencil, edit, edits, given, raced>>

\* json_array_remove moves what follows to the front and takes one off the
\* count. If areas were appended meanwhile, the count it writes may cover all,
\* some or none of them, and its move may leave the last area in two places.
\* The index goes on after a removal, to what has moved there.
RemoveArea ==
  /\ pc = "remove" /\ pc' = "check"
  /\ \E kept \in 0 .. Len(met), again \in {<<>>} \cup (IF met = <<>> THEN {} ELSE {<<Last(areas)>>}) :
        areas' = RemoveAt(areas, i + 1) \o again \o SubSeq(met, 1, kept)
  /\ i' = Min({i + 1, Len(areas')}) /\ met' = <<>>
  /\ UNCHANGED <<list, adding, stencil, edit, edits, given, raced>>

Checked ==
  /\ pc = "check" /\ i = Len(areas)
  /\ pc' = "mask" /\ i' = 0
  /\ UNCHANGED <<list, areas, adding, met, stencil, edit, edits, given, raced>>

Mask ==
  /\ pc = "mask"
  /\ stencil' = stencil \cup Range(areas)
  /\ pc' = "idle"
  /\ UNCHANGED <<list, areas, adding, i, met, edit, edits, given, raced>>

Edit ==
  \/ \E new \in Requests, more \in AreaLists : InitialLayout(new, more)
  \/ \E new \in Requests : ModifySurface(new)
  \/ \E new \in Requests, order \in {"append", "prepend", "before", "after"}, ref \in Ids \cup {NoId} :
        AddSurface(new, order, ref)
  \/ \E ids \in SUBSET Ids : RemoveSurface(ids)
  \/ AppendArea

Next == Edit \/ StartFrame \/ CheckArea \/ RemoveArea \/ Checked \/ Mask

Spec == Init /\ [][Next]_vars

-----------------------------------------------------------------------------
(***************************************************************************)
(* Properties                                                              *)
(***************************************************************************)
\* A layout id has one place on the list, whatever was added again.
OnePlace == \A j, k \in DOMAIN list : list[j].id = list[k].id => j = k

\* What add_surface places before or after a surface is next to it, also if
\* it was on the list before.
Placed ==
  [][LET at(s, ids) == {k \in DOMAIN s : s[k].id \in ids}
     IN  (edits' > edits /\ edit'.command = "add_surface" /\ edit'.ids # {} /\ edit'.ref \in IdsOf(list))
         => LET r == CHOOSE k \in DOMAIN list' : list'[k].id = edit'.ref
            IN  /\ edit'.order = "before" => Max(at(list', edit'.ids)) = r - 1
                /\ edit'.order = "after"  => Min(at(list', edit'.ids)) = r + 1
                /\ Max(at(list', edit'.ids)) - Min(at(list', edit'.ids)) < Cardinality(edit'.ids)]_vars

\* The surfaces an add_surface does not name stay as they are, in their order.
OthersStay ==
  [][(edits' > edits /\ edit'.command = "add_surface")
     => Without(list', edit'.ids) = Without(list, edit'.ids)]_vars

\* A valid safety area is given up only if it was appended while the main
\* thread, which does not take safety_area_mutex, was removing another.
AreasKept == given \subseteq Range(areas) \cup raced

\* What is masked lies within the display.
MaskedValid == stencil \subseteq Valid
=============================================================================
