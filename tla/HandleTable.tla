---------------------------- MODULE HandleTable -----------------------------
(* HandleTable of crates/snolc-sdk/src/handles.rs: slots with generations, so  *)
(* that a handle of a removed value is stale.  A table is a value; insert and  *)
(* remove return the new one.  A handle is <<index, generation>>; an Option is *)
(* a sequence of at most one value.                                            *)
EXTENDS Integers, Sequences

CONSTANT Generations    \* 2^32 in the code

NewTable == [slots |-> <<>>, free |-> <<>>]

\* No handle: insert returned Full.
Full == <<0, 0>>

\* Variant: a full table gives its first slot to the new value.
insert_overwrites(t, limit, v) ==
    IF t.free = <<>> /\ Len(t.slots) < limit
    THEN [table |-> [t EXCEPT !.slots = Append(@, [generation |-> 1, value |-> <<v>>])],
          handle |-> <<Len(t.slots) + 1, 1>>]
    ELSE LET i == IF t.free = <<>> THEN 1 ELSE t.free[Len(t.free)] IN
         [table |-> [slots |-> [t.slots EXCEPT ![i].value = <<v>>],
                     free |-> SubSeq(t.free, 1, Len(t.free) - 1)],
          handle |-> <<i, t.slots[i].generation>>]

\* insert: the last freed slot, or a new one up to the limit.
insert(t, limit, v) ==
    IF t.free # <<>> THEN
        LET i == t.free[Len(t.free)] IN
        [table |-> [slots |-> [t.slots EXCEPT ![i].value = <<v>>],
                    free |-> SubSeq(t.free, 1, Len(t.free) - 1)],
         handle |-> <<i, t.slots[i].generation>>]
    ELSE IF Len(t.slots) >= limit THEN [table |-> t, handle |-> Full]
    ELSE [table |-> [t EXCEPT !.slots = Append(@, [generation |-> 1, value |-> <<v>>])],
          handle |-> <<Len(t.slots) + 1, 1>>]

\* get succeeds: the slot exists, has the handle's generation and a value.
IsLive(t, h) ==
    /\ h[1] \in DOMAIN t.slots
    /\ t.slots[h[1]].generation = h[2]
    /\ t.slots[h[1]].value # <<>>

\* get and get_mut of a live handle.
get(t, h) == t.slots[h[1]].value[1]
set(t, h, v) == [t EXCEPT !.slots[h[1]].value = <<v>>]

\* wrapping_add(1).max(1)
NextGeneration(g) == IF (g + 1) % Generations = 0 THEN 1 ELSE (g + 1) % Generations

\* remove of a live handle.
remove(t, h) ==
    [slots |-> [t.slots EXCEPT ![h[1]] = [generation |-> NextGeneration(@.generation),
                                          value |-> <<>>]],
     free |-> Append(t.free, h[1])]

\* The live handles of a table.
Handles(t) == {<<i, t.slots[i].generation>> : i \in {j \in DOMAIN t.slots :
                                                       t.slots[j].value # <<>>}}
=============================================================================
