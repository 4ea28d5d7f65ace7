------------------------------ MODULE MCMedia ------------------------------
\* Media with a sent message, a received one of the same content without thumbnail,
\* and a received one whose protobuf does not carry the digest of its content.
EXTENDS Media

MCContentOf == [m \in Messages |-> IF m = "l1" THEN "f2" ELSE "f1"]
MCEmbeddedOf == [m \in Messages |-> IF m = "l1" THEN "p2" ELSE "f1"]

=============================================================================
