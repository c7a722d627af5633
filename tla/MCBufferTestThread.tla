-------------------------- MODULE MCBufferTestThread --------------------------
\* Small instances of BufferTestThread for TLC: one DTC or one CFO, and a node with the
\* two DTCs of a merge, whose operator leaves the emulation to the CFO.
EXTENDS BufferTestThread

MCOneFrontEnd == {{0}, {Cfo}}
MCNodes       == MCOneFrontEnd \cup {Dtc}
=============================================================================
