-------------------------- MODULE HeartRateProfile --------------------------
(***************************************************************************)
(* The Heart Rate Measurement characteristic, which carries the four       *)
(* measurements instead of a heart rate: how the service writes it         *)
(* (hrs.c:225) and how the host script reads it (scripts/connect.py:109).  *)
(***************************************************************************)
EXTENDS Naturals, Sequences, SequencesExt

Uint16 == 0..65535
Byte   == 0..255

Low(v)  == v % 256
High(v) == v \div 256

\* UINT16 values, contact supported and present, energy and RR interval.
Flags == 31

\* The only RR interval there is.
RRInterval == 1024

----------------------------------------------------------------------------
\* ahrm_value: what Update_Char_Measurement puts in the characteristic for
\* the values v[1..4] of channels 0..3, with the Flags of HRSAPP_Init.
Update_Char_Measurement(v, energy) ==
  <<Flags, Low(v[1]), High(v[1]), Low(v[2]), High(v[2]), Low(v[3]), High(v[3]), Low(v[4]), High(v[4]),
    Low(energy), High(energy), Low(RRInterval), High(RRInterval)>>

\* sensor_values, in units of 1/10000: the bytes are reversed, so that every
\* value is big-endian, and reversed_byte_list[4:12] cut out.
notification_handler(data) ==
  LET bytes == SubSeq(Reverse(data), 5, 12)
  IN  [i \in 1..4 |-> 256 * bytes[2 * i - 1] + bytes[2 * i]]

=============================================================================
