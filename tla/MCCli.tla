-------------------------------- MODULE MCCli --------------------------------
\* Command lines for the trees of Trees, with integers of two bits.
EXTENDS Cli, Trees

MCConfigs == {Conf(Branching, OneDevice), [Conf(Branching, OneDevice) EXCEPT !.faulty = {"A"}],
              Conf(MixedLinks, OneDevice)}

MCFlags == [maxDepth : {0, 1, 2, 4, 6}, followLinks : BOOLEAN, skip : {{}, {"c"}}, bench : {0, 1, 3}]
=============================================================================
