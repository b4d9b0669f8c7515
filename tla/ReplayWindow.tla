---------------------------- MODULE ReplayWindow ----------------------------
(* DTLS1_BITMAP (ssl/d1_pkt.c): the record numbers a reader has seen, as the *)
(* largest one and one bit for each of the Window numbers that end there.    *)
(* "map" is the set of the bits' positions: k stands for max_seq_num - k.    *)
EXTENDS Integers

CONSTANT Window          \* sizeof(bitmap->map) * 8, 64 in the code

ASSUME WindowIsPositive == Window \in Nat \ {0}

Bitmaps == [max: Nat, map: SUBSET (0 .. Window - 1)]

Fresh == [max |-> 0, map |-> {}]     \* the memset of dtls1_reset_seq_numbers

(* dtls1_record_replay_check. satsub64be saturates the difference at 128,    *)
(* beyond every window, so it is modelled as the exact difference.           *)
IsNewOffByOne(bitmap, seq) ==          \* a mistake: the first number outside is new
    \/ seq > bitmap.max
    \/ bitmap.max - seq <= Window /\ bitmap.max - seq \notin bitmap.map

IsNew(bitmap, seq) ==
    \/ seq > bitmap.max
    \/ bitmap.max - seq < Window /\ bitmap.max - seq \notin bitmap.map

Shifted(map, shift) == {k \in 0 .. Window - 1 : k - shift \in map}

(* dtls1_record_bitmap_update                                                *)
Mark(bitmap, seq) ==
    IF seq > bitmap.max
    THEN [max |-> seq, map |-> Shifted(bitmap.map, seq - bitmap.max) \cup {0}]
    ELSE [bitmap EXCEPT !.map = @ \cup {k \in 0 .. Window - 1 : k = bitmap.max - seq}]

=============================================================================
