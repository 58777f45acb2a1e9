----------------------------- MODULE GlSyncObjs -----------------------------
(***************************************************************************)
(* The table of sync objects of a render process (rvgpu-egl.c). Each time  *)
(* the current GL context changes, a sync object is placed behind the      *)
(* commands of the context that is left and kept in the table under        *)
(* current_ctx; rvgpu_egl_draw waits for all of them before it copies the  *)
(* picture, and empties the table.                                         *)
(*                                                                         *)
(* virglrenderer calls create, destroy and make_current, and draws into    *)
(* the context it made current last (external); Contexts are its contexts, *)
(* Main is the one of the render process. The two arrays have the same     *)
(* size; table is their part below cnt. They shrink with every context     *)
(* that is destroyed, also with one that has no entry, so that the part    *)
(* below cnt may come to lie outside them: a step that reads or writes     *)
(* there goes on as if they were larger, or does damage and is the last    *)
(* one that is followed.                                                   *)
(***************************************************************************)
EXTENDS Lists, FiniteSets

CONSTANTS
  Contexts,
  Main,
  NoContext,
  MaxSize  \* bound: a table this large is not made larger

ConstantsAssumption == Main \notin Contexts /\ NoContext \notin Contexts \cup {Main}

VARIABLES
  table,       \* entries [ctx, of]: the key and the context the sync object was
               \* placed in, NoContext for a sync object that is NULL
  size,        \* entries the arrays have room for
  current_ctx,
  gl,          \* the context current in EGL
  alive,       \* contexts virglrenderer has created
  work,        \* commands of a context: "none" to wait for, "open", or "fenced"
               \* by a sync object placed behind them
  live,        \* sync objects that exist
  lacking,     \* history: contexts destroyed without an entry since the last draw
  damaged      \* a step outside the arrays has done damage

vars == <<table, size, current_ctx, gl, alive, work, live, lacking, damaged>>

TypeOK ==
  /\ table \in Seq([ctx : Contexts \cup {Main}, of : Contexts \cup {Main, NoContext}])
  /\ size \in Nat /\ live \in Nat /\ lacking \in Nat /\ damaged \in BOOLEAN
  /\ current_ctx \in Contexts \cup {Main} /\ gl \in Contexts \cup {Main, NoContext}
  /\ alive \subseteq Contexts
  /\ work \in [Contexts -> {"none", "open", "fenced"}]

Init ==
  /\ table = <<>> /\ size = 1 /\ current_ctx = Main /\ gl = Main
  /\ alive = {} /\ work = [c \in Contexts |-> "none"] /\ live = 0
  /\ lacking = 0 /\ damaged = FALSE

\* Mutant: the arrays grow one entry too late.
rvgpu_increment_glsyncobjs_size_Late(cnt) == IF cnt > size THEN 2 * size ELSE size

\* The size after an increment.
rvgpu_increment_glsyncobjs_size(cnt) == IF cnt >= size THEN 2 * size ELSE size

Slots(t, ctx) == {i \in DOMAIN t : t[i].ctx = ctx}
Synced(t) == {i \in DOMAIN t : t[i].of # NoContext}
Count(t) == Cardinality(Synced(t))

\* Mutant: the entry of the context is not looked for.
SetEntry_Append(t) == Append(t, [ctx |-> current_ctx, of |-> gl])

\* The table after rvgpu_set_glsyncobj.
SetEntry(t) ==
  LET e == [ctx |-> current_ctx, of |-> gl]
  IN IF Slots(t, current_ctx) = {} THEN Append(t, e)
     ELSE LET i == CHOOSE j \in Slots(t, current_ctx) : \A k \in Slots(t, current_ctx) : j <= k
          IN [t EXCEPT ![i] = e]

\* Mutant: the old sync object of the context is not deleted.
LiveAfterSet_Kept(t) == live + IF gl = NoContext THEN 0 ELSE 1

\* A sync object is made, none when no context is current; the one it
\* replaces is deleted.
LiveAfterSet(t) ==
  live + (IF gl = NoContext THEN 0 ELSE 1) - Cardinality(Slots(t, current_ctx) \cap Synced(t))

SizeAfterSet(t) ==
  IF Slots(t, current_ctx) = {} THEN rvgpu_increment_glsyncobjs_size(Len(t) + 1) ELSE size

\* Entries 1 .. n are read or written.
Access(n) == damaged' \in BOOLEAN /\ (damaged' => n > size)

Fenced == [c \in Contexts |-> IF c = gl /\ work[c] = "open" THEN "fenced" ELSE work[c]]

rvgpu_egl_create_context(c) ==
  /\ c \notin alive
  /\ Len(table) < size \/ size < MaxSize
  /\ size' = rvgpu_increment_glsyncobjs_size(Len(table))
  /\ alive' = alive \cup {c}
  /\ UNCHANGED <<table, current_ctx, gl, work, live, lacking, damaged>>

\* Mutant: current_ctx is cleared with the context.
rvgpu_egl_destroy_context_Cleared(c) ==
  /\ c \in alive /\ gl = c
  /\ table' = Without(table, Slots(table, c))
  /\ live' = live - Cardinality(Slots(table, c) \cap Synced(table))
  /\ size' = size - 1
  /\ gl' = NoContext /\ current_ctx' = NoContext
  /\ alive' = alive \ {c}
  /\ work' = [work EXCEPT ![c] = "none"]
  /\ lacking' = lacking + IF Slots(table, c) = {} THEN 1 ELSE 0
  /\ Access(Len(table))

\* rvgpu_decrement_glsyncobjs_size, then no context is current; current_ctx
\* stays.
rvgpu_egl_destroy_context(c) ==
  /\ c \in alive /\ gl = c
  /\ table' = Without(table, Slots(table, c))
  /\ live' = live - Cardinality(Slots(table, c) \cap Synced(table))
  /\ size' = size - 1
  /\ gl' = NoContext
  /\ alive' = alive \ {c}
  /\ work' = [work EXCEPT ![c] = "none"]
  /\ lacking' = lacking + IF Slots(table, c) = {} THEN 1 ELSE 0
  /\ Access(Len(table))
  /\ UNCHANGED current_ctx

\* Mutant: the context is noted before the sync object is stored.
rvgpu_egl_make_context_current_Early(c) ==
  /\ c \in alive /\ size < MaxSize
  /\ LET old == Without(table, Slots(table, c))
     IN /\ table' = Append(old, [ctx |-> c, of |-> gl])
        /\ live' = Count(table')
        /\ size' = IF Len(table') >= size THEN 2 * size ELSE size
        /\ Access(Len(table'))
  /\ work' = Fenced
  /\ gl' = c /\ current_ctx' = c
  /\ UNCHANGED <<alive, lacking>>

rvgpu_egl_make_context_current(c) ==
  /\ c \in alive
  /\ SizeAfterSet(table) <= MaxSize
  /\ table' = SetEntry(table) /\ live' = LiveAfterSet(table) /\ size' = SizeAfterSet(table)
  /\ Access(Len(SetEntry(table)))
  /\ work' = Fenced
  /\ gl' = c /\ current_ctx' = c
  /\ UNCHANGED <<alive, lacking>>

\* virglrenderer executes commands in the context it has made current.
Execute(c) ==
  /\ gl = c
  /\ work' = [work EXCEPT ![c] = "open"]
  /\ UNCHANGED <<table, size, current_ctx, gl, alive, live, lacking, damaged>>

\* The first part of rvgpu_egl_draw: every sync object of the table is waited
\* for and deleted.
rvgpu_egl_draw ==
  /\ SizeAfterSet(table) <= MaxSize
  /\ LET t == SetEntry(table)
         waited == {t[i].of : i \in Synced(t)}
     IN /\ live' = LiveAfterSet(table) - Count(t)
        /\ work' = [c \in Contexts |-> IF c \in waited /\ Fenced[c] = "fenced" THEN "none" ELSE Fenced[c]]
        /\ Access(Len(t))
  /\ lacking' = IF damaged' THEN lacking ELSE 0
  /\ size' = SizeAfterSet(table)
  /\ table' = <<>>
  /\ gl' = Main /\ current_ctx' = Main
  /\ UNCHANGED alive

Next ==
  /\ ~damaged
  /\ \/ \E c \in Contexts : \/ rvgpu_egl_create_context(c) \/ rvgpu_egl_destroy_context(c)
                            \/ rvgpu_egl_make_context_current(c) \/ Execute(c)
     \/ rvgpu_egl_draw

Spec == Init /\ [][Next]_vars
-------------------------------------------------------------------------------
\* The arrays never become empty (the assertion size > 0 of
\* rvgpu_decrement_glsyncobjs_size), and there is room for the next sync object,
\* which rvgpu_set_glsyncobj stores before it makes them larger, but for one
\* entry for each context destroyed without one. Create, set and destroy each
\* change cnt or size, and a draw resets cnt alone.
RoomLeft == size > 0 /\ Len(table) < size + lacking

\* Nothing outside the arrays is touched unless a context without an entry was
\* destroyed since the last draw.
StoredInside == damaged => lacking > 0

\* A context has one entry, also when it is left again and again between two
\* draws or when its address is that of a context that was destroyed.
OneEntry == \A i, j \in DOMAIN table : table[i].ctx = table[j].ctx => i = j

\* No sync object is lost: the ones that exist are those of the table.
NoSyncLost == live = Count(table)

\* The picture is copied only when everything that was drawn into it is
\* finished: after the waits of a draw no context has commands left that were
\* executed before, whichever contexts were created, left and destroyed.
WaitedAtDraw == gl = Main => \A c \in alive : work[c] = "none"
=============================================================================
