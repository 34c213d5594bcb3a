SPECIFICATION FairSpec
INVARIANT SentIsDelivered
