--------------------------- MODULE MCX25519Dispatch ---------------------------
(* Every build configuration the preprocessor tests distinguish, every    *)
(* combination of the CPU features the capability predicates read, two   *)
(* threads.                                                                *)
EXTENDS X25519Dispatch

CONSTANTS t1, t2

MCThreads == {t1, t2}

MCBuilds ==
  [arch : {"x86_64", "aarch64", "other"}, os : {"linux", "apple", "windows"},
   no_asm : BOOLEAN, avx_too_old : BOOLEAN]

MCCPUs == [bmi2 : BOOLEAN, adx : BOOLEAN, wide : BOOLEAN]

=============================================================================
