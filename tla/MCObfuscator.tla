---------------------------- MODULE MCObfuscator ----------------------------
EXTENDS Obfuscator

\* Rows of extreme draws; their combinations give invertible and singular
\* matrices, some of which need their rows exchanged.
Rows == {<<0, -5, -5, -5>>, <<-5, 0, -5, -5>>, <<-5, -5, 0, -5>>, <<-5, -5, -5, 0>>,
         <<5, 5, -5, 5>>}
MCDraws == [1..4 -> Rows]

\* One row, two rows, and one number too few.
MCTensors == {<<1, 2, 3, 4>>, <<1, 2, 3, 4, 5, 6, 7, 8>>, <<1, 2, 3>>}

\* A single matrix, with rows that add up to zero.
MCSingular == {<< <<-5, -5, -5, 0>>, <<-5, -5, 0, -5>>, <<0, -5, -5, -5>>, <<0, -5, -5, -5>> >>}
=============================================================================
