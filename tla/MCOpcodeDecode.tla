--------------------------- MODULE MCOpcodeDecode ---------------------------
\* All opcodes of the lines that have a handler and of two that have none, and
\* words on both sides of the sign.
EXTENDS OpcodeDecode

AllOpcodes == {o \in Opcode : o.line < 9}
Words == {0, 4, 16384, 32768, 65534}
=============================================================================
