------------------------------ MODULE MCKernel ------------------------------
(***************************************************************************)
(* Values for the constants of Kernel.  A glyph has one bit by one, drawn  *)
(* as a square of two pixels by two; the screen has three rows of four.     *)
(***************************************************************************)
EXTENDS Kernel

\* A line of the slave besides the keyboard's of the master.
DeviceLines == {8}

InfoMessage == <<"i">>
FatalMessage == <<"f">>
ShellPrompt == <<NL, ">">>
Font == [ch \in {"i", "f", ">", "k"} |-> {<<0, 0>>}]

-----------------------------------------------------------------------------
\* The check value published for this checksum: 0xCBF43926 for the digits 1 to 9.
Digits == BitsOfBytes(<<49, 50, 51, 52, 53, 54, 55, 56, 57>>)
ASSUME CheckValue == ReferenceCrc(Digits, 9) = BitsOfBytes(<<38, 57, 244, 203>>)

Placed(offset, bits) == {8 * offset + b : b \in bits}

\* A header with the fields gpt_init looks at, and others that it stores; its
\* checksum is the one of the reference.
Standard(last_usable) ==
  LET fields == UNION {Placed(0, Signature), Placed(8, Revision),
                       Placed(12, HeaderSize), Placed(24, HeaderLba),
                       Placed(32, BitsOfBytes(<<255, 7>>)),
                       Placed(40, BitsOfBytes(<<34>>)),
                       Placed(48, BitsOfBytes(last_usable)),
                       Placed(72, BitsOfBytes(<<2>>)), Placed(80, BitsOfBytes(<<128>>)),
                       Placed(84, BitsOfBytes(<<128>>))}
  IN  fields \cup Placed(16, ReferenceCrc(fields, 92))

WrittenHeaders == {Standard(<<222, 7>>), Standard(<<0, 16>>)}

\* Single bits of the checksum and of the fields, the ends of the header, a field as a
\* whole, and bits of two fields.
Turned ==
  {{128}, {130, 159}, {0}, {735}, {400, 401}, {160, 191}, {250, 256, 279},
   384 .. 415, {704, 711, 720, 735}}
=============================================================================
