----------------------- MODULE MC_CrossDomainMessenger -----------------------
EXTENDS CrossDomainMessenger

CONSTANTS up1, up2, upOld, down1, down2, downUnsafe, alice, bob

MCMessages == {up1, up2, upOld, down1, down2, downUnsafe}
MCTo == [m \in MCMessages |-> IF m \in {up1, up2, upOld} THEN L1 ELSE L2]
MCValue == [m \in MCMessages |-> IF m \in {up1, down1} THEN 2
                                 ELSE IF m \in {up2, down2} THEN 1 ELSE 0]
MCSender == [m \in MCMessages |-> IF m \in {up1, down1} THEN alice ELSE bob]
MCUnsafe == {downUnsafe}
MCLegacy == {upOld}
MCSenders == {alice, bob}
=============================================================================
