------------------------------ MODULE MCCodecs ------------------------------
(* Alphabets that hold every class of characters the code tells apart.        *)
EXTENDS Codecs

Letters ==
    [text       |-> {97, 65, 98, 200, Space},
     connection |-> {97, Quote, Semicolon, Equal, Colon, Space},
     number     |-> {48, 49, 55, 57, 120, 97, Minus, Plus, Space},
     range      |-> {49, 53, Dot, Minus, Dollar, Question, 62, 61, Space},
     path       |-> {97, 122, Dot, Slash},
     bytes      |-> {0, 15, 65, 127, 128, 191, 194, 224, 240, 255},
     pickle     |-> PODs \cup {"string", "data", "claim", "reserve", "copy", "assign"},
     time       |-> 0..6]
Lengths ==
    [text |-> 5, connection |-> 4, number |-> 4, range |-> 4, path |-> 6, bytes |-> 4, pickle |-> 4, time |-> 4]
=============================================================================
