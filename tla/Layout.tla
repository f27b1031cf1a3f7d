------------------------------- MODULE Layout -------------------------------
(***************************************************************************)
(* include/core/packet.h: integer members of a packet, each at a bit       *)
(* offset the layout computes, written and read through masks and shifts   *)
(* by the code generated from set_integer and get_integer.                 *)
(*                                                                         *)
(* Memory is the set of the bits that are 1, little endian, and so is a    *)
(* number inside set_integer and get_integer: OR is union, clearing bits   *)
(* is set difference, a shift renames bits.  A send buffer comes from      *)
(* malloc: its bits start as anything.                                     *)
(***************************************************************************)
EXTENDS Integers, FiniteSetsExt

CONSTANTS Member,       \* the members in the order of fix_layout: records
                        \* [width, base, cap, aligned], width = bits of T;
                        \* cap = 0 when there is no custom range
          Written,      \* the members the modules write (indices)
          Values        \* member -> values the modules write to it, all of
                        \* them in its custom range base .. cap - 1

byte_size == 8
Index == DOMAIN Member

VARIABLES mem,          \* the bits of the packet that are 1
          last          \* member -> the value last written, -1 before

vars == <<mem, last>>

align_to(v) == ((v + byte_size - 1) \div byte_size) * byte_size

\* set_custom_range: as many bits as the greatest offset into the range has.
m_bit_size ==
  [k \in Index |->
     IF Member[k].cap = 0 THEN Member[k].width
     ELSE Min({b \in 0 .. 30 : 2^b > Member[k].cap - Member[k].base - 1})]

\* The end of the member before, rounded up for an aligned one.
get_offset ==
  LET off[j \in Index] ==
        IF j = 1 THEN 0
        ELSE LET end == off[j - 1] + m_bit_size[j - 1]
             IN  IF Member[j].aligned THEN align_to(end) ELSE end
  IN  [k \in Index |-> off[k]]

Last == Max(Index)
get_total_size == align_to(get_offset[Last] + m_bit_size[Last])
Bit == 0 .. get_total_size - 1

Bits(v)   == {j \in 0 .. 30 : (v \div 2^j) % 2 = 1}
Number(S) == SumSet({2^j : j \in S})

Shifted(S, n) == {j + n : j \in S}
Low(S, n)     == {j \in S : j < n}

(***************************************************************************)
(* Writing.                                                                *)
(***************************************************************************)
\* The bits get_value_mask(n) has, as an unsigned char; the shift by n >= 64
\* is undefined and takes n modulo 64 on the machines the code is built for.
CharMask(n) == 0 .. (IF n % 64 < byte_size THEN n % 64 ELSE byte_size) - 1

\* set_bits_lower on memory m, bits bit_start on of one byte.  The number of
\* bits to clear is bit_start (num_bits = bit_end = bit_start).
set_bits_lower(m, bit_start, bit_end, val) ==
  LET byte      == (bit_start \div byte_size) * byte_size
      bit_shift == bit_start % byte_size
      InByte(S) == Shifted(Low(Shifted(S, bit_shift), byte_size), byte)
  IN  (m \ InByte(CharMask(bit_start))) \union InByte(val)

\* set_bits_upper: the word of type T at bit_start, its bits beyond the member
\* kept.  The value is not masked.
set_bits_upper(m, width, bit_start, bit_end, val) ==
  IF bit_end - bit_start = width
  THEN (m \ (bit_start .. bit_start + width - 1)) \union Shifted(Low(val, width), bit_start)
  ELSE (m \ (bit_start .. bit_end - 1)) \union Shifted(Low(val, width), bit_start)

\* The bits of a member in its first byte, when it does not start there.
LowerBits(k) ==
  LET lb == byte_size - (get_offset[k] % byte_size)
  IN  IF lb > m_bit_size[k] THEN m_bit_size[k] ELSE lb

set_integer(k, v) ==
  LET val   == Bits(v - Member[k].base)
      start == get_offset[k]
      end   == start + m_bit_size[k]
      lb    == LowerBits(k)
      low   == set_bits_lower(mem, start, start + lb, Low(val, lb))
      w     == Member[k].width
  IN  /\ mem' = IF start % byte_size = 0
                THEN set_bits_upper(mem, w, start, end, val)
                ELSE IF lb = m_bit_size[k]
                THEN low
                ELSE set_bits_upper(low, w, start + lb, end, {j - lb : j \in val \ Low(val, lb)})
      /\ last' = [last EXCEPT ![k] = v]

(***************************************************************************)
(* Reading: the bits of the member, in two parts when it does not start at *)
(* a byte.                                                                 *)
(***************************************************************************)
Field(bit_start, bit_end) == {j - bit_start : j \in mem \intersect (bit_start .. bit_end - 1)}

get_integer(k) ==
  LET start == get_offset[k]
      end   == start + m_bit_size[k]
      lb    == LowerBits(k)
      value == IF start % byte_size = 0
               THEN Field(start, end)
               ELSE Field(start, start + lb) \union Shifted(Field(start + lb, end), lb)
  IN  Number(value) + Member[k].base

Init == /\ mem \in {{}, Bit}
        /\ last = [k \in Written |-> -1]

Next == \E k \in Written : \E v \in Values[k] : set_integer(k, v)

Spec == Init /\ [][Next]_vars

-----------------------------------------------------------------------------
(***************************************************************************)
(* Properties.                                                             *)
(***************************************************************************)

\* packet.h:125 on set_bits_lower: "can only set sizes < byte_size, but any
\* offset"; packet.h:132 "clear the bits".  get_integer returns what
\* set_integer wrote last to the member, whatever the buffer held and whichever
\* members were written since.
ReadsBack == \A k \in Written : last[k] # -1 => get_integer(k) = last[k]
=============================================================================
