------------------------------ MODULE MCFiles ------------------------------
EXTENDS Files

\* One image that passes, and one for each check that turns an image away.
MCImages ==
    {[bytes |-> 2, format |-> "PNG", width |-> 3, height |-> 1],
     [bytes |-> 0, format |-> "PNG", width |-> 1, height |-> 1],
     [bytes |-> 3, format |-> "JPEG", width |-> 1, height |-> 1],
     [bytes |-> 1, format |-> "GIF", width |-> 1, height |-> 1],
     [bytes |-> 1, format |-> "WEBP", width |-> 1, height |-> 4]}
=============================================================================
