-------------------------------- MODULE MCSlip --------------------------------
EXTENDS Slip

\* A frame as long as uip_buf takes, with a byte to be escaped, and one that is too long.
MCFrame == {<<"special", "plain">>, <<"plain", "plain", "plain">>}
===============================================================================
