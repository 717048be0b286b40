SPECIFICATION Spec
INVARIANT BrokerOutageContained
