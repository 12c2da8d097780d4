------------------------------ MODULE MCDataPage ------------------------------
\* An instance of DataPage for TLC.  The readings of January 31 and of February 3
\* are both saved with the date of March 3, those of March 3 with that of April 3.
EXTENDS DataPage

On(m, d) == [y |-> 2019, m |-> m, d |-> d]

ReportDays == {On(1, 31), On(2, 3), On(3, 3)}
Chosen == {On(4, 3)}

=============================================================================
