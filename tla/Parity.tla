------------------------------- MODULE Parity -------------------------------
(***************************************************************************)
(* The odd parity bit a sensor node appends to each reading                *)
(* (compute_engine/main.c) and the test the CoAP server applies to it      *)
(* (coap_server.py).  The two are written in different languages and must  *)
(* agree on every value, negative ones included.                           *)
(***************************************************************************)
EXTENDS Integers, FiniteSets

WIDTH == 16

(* The positions of the one bits among the low WIDTH bits of v.  Both loops *)
(* test `num & 1' and shift right WIDTH times; the shift is arithmetic in C *)
(* (int16_t) and in Python, which is floor division here.                   *)
OneBits(v) == {i \in 0 .. WIDTH - 1 : (v \div 2^i) % 2 = 1}

(* main.c: the bit that makes the number of ones odd. *)
calculate_odd_parity(v) == IF Cardinality(OneBits(v)) % 2 = 0 THEN 1 ELSE 0

(* coap_server.py calls its counter calculate_odd_parity too. *)
ones_count(v) == Cardinality(OneBits(v))

parityCheck(v, parity) == (ones_count(v) + parity) % 2 = 1
=============================================================================
