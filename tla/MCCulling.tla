------------------------------ MODULE MCCulling ------------------------------
(* Culling and Review for TLC: hashes of up to two digits of two bits.       *)
EXTENDS Review

\* Of sharpness and noise.
MCWeight == <<2, 1>>

MCShot(t, name, h, sharpness, noise) ==
    [time |-> t, name |-> name, hash |-> h, healthy |-> sharpness # Failed \/ noise # 0,
     measured |-> <<sharpness, noise>>]

\* Times within every gap, within the larger one only, far away, none; hashes that are equal,
\* near, far with a part in common, shorter, none; scores of each decision, one of a file that
\* cannot be decoded, one of an analyzer alone, one of none.
MCShots ==
    {MCShot(0, 1, {3, 1}, 90, 90), MCShot(1, 1, {3}, 60, Failed), MCShot(3, 1, {3, 0}, 30, 30),
     MCShot(9, 2, NoHash, Failed, Failed), MCShot(Undated, 1, {3, 0}, 75, 60),
     MCShot(Undated, 1, {0}, Failed, 0)}
==============================================================================
