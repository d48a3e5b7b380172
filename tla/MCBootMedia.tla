---------------------------- MODULE MCBootMedia ----------------------------
EXTENDS BootMedia

\* Parts of the default order of tegrabl_cbo.c.
MCOrders == { <<"sd", "usb">>, <<"nvme", "emmc">> }

=============================================================================
