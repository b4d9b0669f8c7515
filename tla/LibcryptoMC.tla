----------------------------- MODULE LibcryptoMC -----------------------------
(* Small instances of the parts of libcrypto that keep state.  The parts   *)
(* share nothing, so a behaviour is one of one part, chosen at the start,  *)
(* while the others stay as they are.                                      *)
(*   bio_pair: a ring of three bytes one way, of one byte the other, calls *)
(*     of up to three bytes, two byte values;                              *)
(*   blindings: two threads, a cache of one blinding that is redrawn every *)
(*     second use, one failed allocation;                                  *)
(*   random: two threads in a process that forks once;                     *)
(*   errors: a ring of three places;                                       *)
(*   buffer: a buffer of two bytes and calls of up to five.                *)
EXTENDS BioPair, RsaBlindings, RandBuffers, ErrorQueue, BioBuffer

VARIABLE part   \* the part that moves

MCSize0 == [e \in {1, 2} |-> IF e = 1 THEN 3 ELSE 1]

(* ------------------------------- the parts ----------------------------- *)
LibcryptoInit ==
  /\ part \in {"bio_pair", "blindings", "random", "errors", "buffer"}
  /\ Init /\ BlindingInit /\ RandInit /\ ErrInit /\ BufferInit
  /\ part # "bio_pair" => \A e \in End : \A i \in DOMAIN buf[e] : buf[e][i] = 0

LibcryptoNext ==
  /\ UNCHANGED part
  /\ \/ part = "bio_pair" /\ Next
        /\ UNCHANGED <<blindingVars, randVars, errVars, bufferVars>>
     \/ part = "blindings" /\ BlindingNext
        /\ UNCHANGED <<vars, randVars, errVars, bufferVars>>
     \/ part = "random" /\ RandNext
        /\ UNCHANGED <<vars, blindingVars, errVars, bufferVars>>
     \/ part = "errors" /\ ErrNext
        /\ UNCHANGED <<vars, blindingVars, randVars, bufferVars>>
     \/ part = "buffer" /\ BufferNext
        /\ UNCHANGED <<vars, blindingVars, randVars, errVars>>

LibcryptoSpec ==
  LibcryptoInit
    /\ [][LibcryptoNext]_<<part, vars, blindingVars, randVars, errVars, bufferVars>>
=============================================================================
