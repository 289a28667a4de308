------------------------------- MODULE Vtype -------------------------------
(***************************************************************************)
(* The VTYPE register and its decoding (src/fdca_rvv_state.h,              *)
(* src/fdca_rvv_state.c).  A raw VTYPE value is abstracted to the bits the *)
(* driver reads: the VILL bit (bit 63) and the low byte (bits 0..7), which *)
(* holds VLMUL (bits 0..2), VSEW (bits 3..5), VTA (bit 6) and VMA (bit 7). *)
(* Bits 8..62 are never read by the driver.                                *)
(***************************************************************************)
EXTENDS Naturals

\* A raw VTYPE value as the driver sees it.
VtypeValue == [vill : BOOLEAN, low : 0..255]

\* fdca_rvv_get_sew_bits(): SEW = 8 << vsew.
GetSewBits(vsew) == 8 * 2^vsew

\* fdca_rvv_get_lmul_fraction(): <<mul, div>> for a VLMUL encoding; the
\* reserved encoding 4 falls back to 1/1.
GetLmulFraction(vlmul) ==
    IF vlmul <= 3 THEN <<2^vlmul, 1>>
    ELSE IF vlmul >= 5 /\ vlmul <= 7 THEN <<1, 2^(8 - vlmul)>>
    ELSE <<1, 1>>

\* The "parsed" sub-record of struct fdca_rvv_csr_context.
ParsedRecord == [vill : BOOLEAN, vlmul : 0..7, vsew : 0..7, vta : BOOLEAN,
                 vma : BOOLEAN, sew_bits : Nat, lmul_mul : Nat, lmul_div : Nat]

\* The parsed view of a context created by kzalloc/memset: every field 0.
ZeroParsed == [vill |-> FALSE, vlmul |-> 0, vsew |-> 0, vta |-> FALSE,
               vma |-> FALSE, sew_bits |-> 0, lmul_mul |-> 0, lmul_div |-> 0]

\* fdca_rvv_csr_parse_vtype(): sets vill first and, when it is set, returns
\* leaving every other parsed field as it was.
ParseVtype(vtype, parsed) ==
    IF vtype.vill
    THEN [parsed EXCEPT !.vill = TRUE]
    ELSE LET vlmul == vtype.low % 8
             vsew  == (vtype.low \div 8) % 8
             frac  == GetLmulFraction(vlmul)
         IN  [vill |-> FALSE, vlmul |-> vlmul, vsew |-> vsew,
              vta |-> (vtype.low \div 64) % 2 = 1,
              vma |-> (vtype.low \div 128) % 2 = 1,
              sew_bits |-> GetSewBits(vsew),
              lmul_mul |-> frac[1], lmul_div |-> frac[2]]
=============================================================================
