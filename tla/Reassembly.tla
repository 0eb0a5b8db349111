----------------------------- MODULE Reassembly -----------------------------
(* Ipv6Reassembly of crates/snolc/src/stack.rs as a function of its slots: the *)
(* fragments of a datagram are collected in a slot of their key, and the slot  *)
(* gives the datagram out when no block is missing.                            *)
(*                                                                             *)
(* A fragment is a record with a key (addresses and identification), header    *)
(* (everything that must agree between fragments), offset, len and more.  A    *)
(* slot keeps, beside what the code keeps, the fragments it took: parts.       *)
EXTENDS Integers, Sequences, FiniteSets

CONSTANTS
    Block,          \* REASSEMBLY_BLOCK_BYTES
    MaxFragmented   \* MAX_IPV6_PACKET_BYTES less the part before the fragment

\* Ipv6ReassemblySlot::new and clear; total_fragment_len is -1 for None.
EmptySlot == [key |-> <<>>, header |-> "none", received |-> {}, total |-> -1, parts |-> {}]

\* Blocks that the bytes from first up to end touch.
Blocks(first, end) == {n \in 0..MaxFragmented : /\ n >= first \div Block
                                                /\ n < (end + Block - 1) \div Block}

is_complete(slot) == slot.total >= 0 /\ Blocks(0, slot.total) \subseteq slot.received

\* take_packet of a complete slot: fits says that the packet fits the device.
take_packet(slots, i, fits) ==
    IF fits THEN [slots |-> [slots EXCEPT ![i] = EmptySlot], outcome |-> "packet",
                  packet |-> slots[i]]
    ELSE [slots |-> slots, outcome |-> "pending", packet |-> EmptySlot]

\* The slot for a fragment: that of its key, or the first empty one; 0 for none.
SlotFor(slots, key) ==
    LET S(k) == {i \in DOMAIN slots : slots[i].key = k}
        First(I) == CHOOSE i \in I : \A j \in I : i <= j
    IN  IF S(key) # {} THEN First(S(key))
        ELSE IF S(<<>>) # {} THEN First(S(<<>>))
        ELSE 0

\* Variant: overlaps are not noticed.
Contradicts_overlap_taken(slot, f) ==
    LET end == f.offset + f.len IN
    \/ slot.header # f.header
    \/ end = 0
    \/ end > MaxFragmented
    \/ f.more /\ f.len % Block # 0
    \/ slot.total >= 0 /\ (end > slot.total \/ (f.more /\ end = slot.total))
    \/ ~f.more /\ slot.total >= 0 /\ slot.total # end

\* The fragment cannot belong to the datagram the slot collects.
Contradicts(slot, f) ==
    LET end == f.offset + f.len IN
    \/ slot.header # f.header
    \/ end = 0
    \/ end > MaxFragmented
    \/ f.more /\ f.len % Block # 0
    \/ slot.total >= 0 /\ (end > slot.total \/ (f.more /\ end = slot.total))
    \/ Blocks(f.offset, end) \cap slot.received # {}
    \/ ~f.more /\ slot.total >= 0 /\ slot.total # end

\* ingest of a fragment; expired is the set of slots whose time is over.
ingest(slots0, f, expired, fits) ==
    LET slots == [i \in DOMAIN slots0 |-> IF i \in expired THEN EmptySlot ELSE slots0[i]]
        complete == {j \in DOMAIN slots : slots[j].key = f.key /\ is_complete(slots[j])}
        i == SlotFor(slots, f.key)
        slot == IF slots[i].key = <<>> THEN [slots[i] EXCEPT !.key = f.key, !.header = f.header]
                ELSE slots[i]
        end == f.offset + f.len
        added == [slots EXCEPT ![i] =
                    [slot EXCEPT !.received = @ \cup Blocks(f.offset, end),
                                 !.total = IF f.more THEN @ ELSE end,
                                 !.parts = @ \cup {f}]]
        Result(t, outcome) == [slots |-> t, outcome |-> outcome, packet |-> EmptySlot]
    IN  IF complete # {} THEN take_packet(slots, CHOOSE j \in complete : TRUE, fits)
        ELSE IF i = 0 THEN Result(slots, "dropped")
        ELSE IF Contradicts(slot, f) THEN Result([slots EXCEPT ![i] = EmptySlot], "dropped")
        ELSE IF is_complete(added[i]) THEN take_packet(added, i, fits)
        ELSE Result(added, "buffered")
=============================================================================
